---- MODULE Spec2Model ----
(***************************************************************************)
(* Identity resolution, visit storage and cost reconciliation of the       *)
(* home-health warehouse: HomeHealthETL (src/etl_pipeline.py) and          *)
(* ProfitabilityAnalyzer (src/profitability_analysis.py).                  *)
(*                                                                         *)
(* Strings are sequences of one-character strings, so that the character   *)
(* level operations of the code (strip, split, lower, regex search,        *)
(* similarity ratio) are computed and not assumed.  An optional integer    *)
(* (Python None or an int) is the empty sequence or a one-element          *)
(* sequence.                                                               *)
(***************************************************************************)
EXTENDS Integers, Sequences, FiniteSets, TLC

(***************************************************************************)
(* Characters and Python string primitives                                 *)
(***************************************************************************)

\* the characters the model's names are written with, in code-point order
Alphabet ==
    << " ", "(", ")", ",", ".", "/",
       "0", "1", "2", "3", "4", "5", "6", "7", "8", "9",
       "A", "B", "C", "D", "E", "F", "G", "H", "I", "J", "K", "L", "M",
       "N", "O", "P", "Q", "R", "S", "T", "U", "V", "W", "X", "Y", "Z",
       "a", "b", "c", "d", "e", "f", "g", "h", "i", "j", "k", "l", "m",
       "n", "o", "p", "q", "r", "s", "t", "u", "v", "w", "x", "y", "z" >>

\* position of a character in code-point order
Ord(c) == CHOOSE i \in 1..Len(Alphabet) : Alphabet[i] = c

Digits == << "0", "1", "2", "3", "4", "5", "6", "7", "8", "9" >>

IsDigit(c) == \E i \in 1..Len(Digits) : Digits[i] = c

DigitVal(c) == (CHOOSE i \in 1..Len(Digits) : Digits[i] = c) - 1

IsUpper(c) == Ord(c) >= Ord("A") /\ Ord(c) <= Ord("Z")

\* str.lower() on one character
LowerChar(c) == IF IsUpper(c) THEN Alphabet[Ord(c) + (Ord("a") - Ord("A"))] ELSE c

\* str.lower()
Lower(s) == [i \in 1..Len(s) |-> LowerChar(s[i])]

\* s[i:j] with 1-based inclusive bounds, empty when i > j
Slice(s, i, j) == IF i > j THEN << >> ELSE SubSeq(s, i, j)

RECURSIVE LStrip(_, _)
\* str.lstrip(chars)
LStrip(s, chars) ==
    IF s # << >> /\ Head(s) \in chars THEN LStrip(Tail(s), chars) ELSE s

RECURSIVE RStrip(_, _)
\* str.rstrip(chars)
RStrip(s, chars) ==
    IF s # << >> /\ s[Len(s)] \in chars
    THEN RStrip(SubSeq(s, 1, Len(s) - 1), chars) ELSE s

\* str.strip(chars)
StripChars(s, chars) == RStrip(LStrip(s, chars), chars)

\* the whitespace characters of the alphabet
WS == {" "}

\* str.strip()
Strip(s) == StripChars(s, WS)

RECURSIVE SplitWS(_, _)
\* str.split(): the maximal runs of non-whitespace, cur is the run being read
SplitWS(s, cur) ==
    IF s = << >>
    THEN IF cur = << >> THEN << >> ELSE << cur >>
    ELSE IF Head(s) \in WS
         THEN IF cur = << >> THEN SplitWS(Tail(s), << >>)
              ELSE << cur >> \o SplitWS(Tail(s), << >>)
         ELSE SplitWS(Tail(s), Append(cur, Head(s)))

Split(s) == SplitWS(s, << >>)

RECURSIVE Join(_, _)
\* sep.join(parts)
Join(parts, sep) ==
    IF parts = << >> THEN << >>
    ELSE IF Len(parts) = 1 THEN parts[1]
    ELSE parts[1] \o sep \o Join(Tail(parts), sep)

\* index of the first occurrence of character c in s, 0 when absent
IndexOf(s, c) ==
    IF \E i \in 1..Len(s) : s[i] = c
    THEN CHOOSE i \in 1..Len(s) : s[i] = c /\ \A j \in 1..(i - 1) : s[j] # c
    ELSE 0

(***************************************************************************)
(* Optional integers                                                       *)
(***************************************************************************)

\* Python None
None == << >>

\* an int held in an Optional[int]
Some(n) == << n >>

\* Python truthiness of an Optional[int]: None and 0 are false
Truthy(o) == o # None /\ o[1] # 0

(***************************************************************************)
(* HomeHealthETL.extract_patient_id_from_name                              *)
(***************************************************************************)

\* whether s[i..j] is "(" digits ")" with at least one digit
IsParenId(s, i, j) ==
    /\ j > i + 1
    /\ s[i] = "("
    /\ s[j] = ")"
    /\ \A k \in (i + 1)..(j - 1) : IsDigit(s[k])

\* whether the regex \((\d+)\) matches somewhere in s
HasParenId(s) == \E i, j \in 1..Len(s) : IsParenId(s, i, j)

\* start of the leftmost match of \((\d+)\) in s
ParenIdStart(s) ==
    CHOOSE i \in 1..Len(s) :
        /\ \E j \in 1..Len(s) : IsParenId(s, i, j)
        /\ \A i2 \in 1..(i - 1) : ~ \E j \in 1..Len(s) : IsParenId(s, i2, j)

\* end of the match of \((\d+)\) that starts at i
ParenIdEnd(s, i) == CHOOSE j \in 1..Len(s) : IsParenId(s, i, j)

RECURSIVE ParseInt(_, _)
\* int(digits), acc is the value read so far
ParseInt(ds, acc) ==
    IF ds = << >> THEN acc ELSE ParseInt(Tail(ds), 10 * acc + DigitVal(Head(ds)))

RECURSIVE RemoveParenIds(_)
\* re.sub(r'\s*\(\d+\)', '', s): every "(digits)" goes, with the whitespace before it
RemoveParenIds(s) ==
    IF ~ HasParenId(s) THEN s
    ELSE LET i == ParenIdStart(s)
             j == ParenIdEnd(s, i)
         IN  RStrip(Slice(s, 1, i - 1), WS) \o RemoveParenIds(Slice(s, j + 1, Len(s)))

\* lines 199-213: the name split into (first_name, last_name)
SplitName(name) ==
    IF IndexOf(name, ",") # 0
    THEN LET c == IndexOf(name, ",")
         IN  [first_name |-> Strip(Slice(name, c + 1, Len(name))),
              last_name  |-> Strip(Slice(name, 1, c - 1))]
    ELSE LET parts == Split(name)
         IN  IF Len(parts) >= 2
             THEN [first_name |-> Strip(parts[1]),
                   last_name  |-> Strip(Join(Tail(parts), << " " >>))]
             ELSE [first_name |-> << >>, last_name |-> Strip(name)]

\* line 216: f"{last_name}, {first_name}".strip(', ')
FullName(first_name, last_name) ==
    StripChars(last_name \o << ",", " " >> \o first_name, {",", " "})

\* extract_patient_id_from_name(patient_name) -> (patient_id, first, last, full)
extract_patient_id_from_name(patient_name) ==
    IF patient_name = << >>
    THEN [pid |-> None, first_name |-> << >>, last_name |-> << >>, full_name |-> << >>]
    ELSE LET stripped == Strip(patient_name)
             found    == HasParenId(stripped)
             i        == ParenIdStart(stripped)
             j        == ParenIdEnd(stripped, i)
             pid      == IF found
                         THEN Some(ParseInt(Slice(stripped, i + 1, j - 1), 0))
                         ELSE None
             name     == IF found THEN Strip(RemoveParenIds(stripped)) ELSE stripped
             fl       == SplitName(name)
         IN  [pid        |-> pid,
              first_name |-> fl.first_name,
              last_name  |-> fl.last_name,
              full_name  |-> FullName(fl.first_name, fl.last_name)]

(***************************************************************************)
(* Similarity: difflib.SequenceMatcher and fuzzywuzzy.fuzz.ratio           *)
(***************************************************************************)

RECURSIVE CommonRun(_, _, _, _)
\* length of the longest common run of a and b that starts at a[i] and b[j]
CommonRun(a, b, i, j) ==
    IF i <= Len(a) /\ j <= Len(b) /\ a[i] = b[j]
    THEN 1 + CommonRun(a, b, i + 1, j + 1)
    ELSE 0

\* SequenceMatcher.find_longest_match: the longest matching block, the one
\* starting earliest in a, and among those the one starting earliest in b
LongestMatch(a, b) ==
    LET Pairs == (1..Len(a)) \X (1..Len(b))
        Run   == [p \in Pairs |-> CommonRun(a, b, p[1], p[2])]
        k     == CHOOSE n \in 0..Len(a) :
                     /\ \A p \in Pairs : Run[p] <= n
                     /\ n > 0 => \E p \in Pairs : Run[p] = n
        i     == CHOOSE x \in 1..Len(a) :
                     /\ \E y \in 1..Len(b) : Run[<< x, y >>] = k
                     /\ \A x2 \in 1..(x - 1) : \A y \in 1..Len(b) : Run[<< x2, y >>] # k
        j     == CHOOSE y \in 1..Len(b) :
                     /\ Run[<< i, y >>] = k
                     /\ \A y2 \in 1..(y - 1) : Run[<< i, y2 >>] # k
    IN  [i |-> i, j |-> j, k |-> k]

RECURSIVE Matches(_, _)
\* SequenceMatcher.get_matching_blocks, summed: the number of matched characters
Matches(a, b) ==
    IF a = << >> \/ b = << >> THEN 0
    ELSE LET m == LongestMatch(a, b)
         IN  IF m.k = 0 THEN 0
             ELSE m.k
                  + Matches(Slice(a, 1, m.i - 1), Slice(b, 1, m.j - 1))
                  + Matches(Slice(a, m.i + m.k, Len(a)), Slice(b, m.j + m.k, Len(b)))

\* round(n / d) for n >= 0, d > 0, halves to the even neighbour (Python round)
RoundDiv(n, d) ==
    LET q == n \div d
        r == n % d
    IN  IF 2 * r > d THEN q + 1
        ELSE IF 2 * r < d THEN q
        ELSE IF q % 2 = 0 THEN q ELSE q + 1

\* fuzz.ratio(s1, s2): 100 for equal strings, 0 when one is empty, else
\* int(round(100 * SequenceMatcher(None, s1, s2).ratio())) with ratio = 2*M/T
FuzzRatio(s1, s2) ==
    IF s1 = s2 THEN 100
    ELSE IF s1 = << >> \/ s2 = << >> THEN 0
    ELSE RoundDiv(200 * Matches(s1, s2), Len(s1) + Len(s2))

(***************************************************************************)
(* ProfitabilityAnalyzer.normalize_name: the NameKey                       *)
(***************************************************************************)

RECURSIVE StrLess(_, _)
\* a < b for Python strings: code-point order, a proper prefix comes first
StrLess(a, b) ==
    IF b = << >> THEN FALSE
    ELSE IF a = << >> THEN TRUE
    ELSE IF Head(a) = Head(b) THEN StrLess(Tail(a), Tail(b))
    ELSE Ord(Head(a)) < Ord(Head(b))

RECURSIVE InsertSorted(_, _)
\* the sorted sequence ts with token t put in its place
InsertSorted(ts, t) ==
    IF ts = << >> THEN << t >>
    ELSE IF StrLess(t, Head(ts)) THEN << t >> \o ts
    ELSE << Head(ts) >> \o InsertSorted(Tail(ts), t)

RECURSIVE Sorted(_)
\* sorted(parts)
Sorted(parts) ==
    IF parts = << >> THEN << >> ELSE InsertSorted(Sorted(Tail(parts)), Head(parts))

RECURSIVE ReplaceChar(_, _, _)
\* str.replace(c, by) for a one-character c; by is a string
ReplaceChar(s, c, by) ==
    IF s = << >> THEN << >>
    ELSE (IF Head(s) = c THEN by ELSE << Head(s) >>) \o ReplaceChar(Tail(s), c, by)

\* the string 'nan'
NaNString == << "n", "a", "n" >>

\* normalize_name(name)
normalize_name(name) ==
    IF name = << >> \/ name = NaNString THEN << >>
    ELSE LET lowered  == Lower(Strip(name))
             replaced == ReplaceChar(ReplaceChar(ReplaceChar(lowered,
                             ".", << >>), ",", << " " >>), "/", << " " >>)
         IN  Join(Sorted(Split(replaced)), << " " >>)

(***************************************************************************)
(* Bounds and inputs                                                       *)
(***************************************************************************)

\* resolve calls made by one pipeline instance
MaxCalls == 2

\* identities the registry may hold
MaxPatients == 3

\* "Doe, Jane"
NameDoeJane == << "D", "o", "e", ",", " ", "J", "a", "n", "e" >>

\* "Jane Doe": the same name, first name first
NameJaneDoe == << "J", "a", "n", "e", " ", "D", "o", "e" >>

\* "DOE, JANE": the same name in capitals
NameDoeJaneUpper == << "D", "O", "E", ",", " ", "J", "A", "N", "E" >>

\* "Doe, Jan": a spelling of "Doe, Jane" with ratio 94
NameDoeJan == << "D", "o", "e", ",", " ", "J", "a", "n" >>

\* "Doe, Jane (2)": carries the explicit id 2
NameDoeJaneId == << "D", "o", "e", ",", " ", "J", "a", "n", "e", " ", "(", "2", ")" >>

\* "Lee, Ann": another person
NameLeeAnn == << "L", "e", "e", ",", " ", "A", "n", "n" >>

\* "": no name
NameEmpty == << >>

\* the raw patient names offered to the resolver
Names ==
    { NameDoeJane, NameJaneDoe, NameDoeJaneUpper, NameDoeJan, NameDoeJaneId,
      NameLeeAnn, NameEmpty }

\* the patient_id arguments offered to the resolver: None or an explicit id
PidArgs == { None, Some(0), Some(1) }

\* pipeline instances run one after the other, each with its own import_batch
\* (datetime.now() at construction): the batch that follows each batch
NextBatch == [B1 |-> "B2"]

\* the import_batch of the first pipeline instance
FirstBatch == "B1"

(***************************************************************************)
(* The patient registry (table patients) and find_or_create_patient        *)
(***************************************************************************)

VARIABLES
    patients,       \* table patients: a set of rows, patient_id is the key
    stats,          \* HomeHealthETL.stats counters
    import_batch,   \* HomeHealthETL.import_batch of the running pipeline instance
    call,           \* arguments of the last find_or_create_patient call
    ret,            \* what that call returned
    conn,           \* concurrent resolutions: each worker's position and locals
    lock,           \* concurrent resolutions: the worker holding the write lock
    visits,         \* table visits: the rows in insertion order
    store,          \* the store_visits call in progress: its list, position, transaction
    log,            \* the completed store_visits calls: the list and the row count after it
    claims_df,      \* ProfitabilityAnalyzer.claims_df: None or the claim rows
    costs_df,       \* ProfitabilityAnalyzer.costs_df: None or the cost rows
    report,         \* what analyze() returned: None, the report or the error dict
    files,          \* what the two source files hold: None when one cannot be loaded
    response,       \* the answer to the last /profitability request: None before it
    directory,      \* the files of the input directory, in the order glob yields them
    run,            \* process_directory: the file reached and the stage of process_file
    import_log,     \* table import_log: the entries in insertion order
    claims_table,   \* table claims: the rows in insertion order
    normalized      \* the last normalize_name calls: None, or the names and the keys

\* config['processing']['name_match_threshold'], as a percentage
Threshold == 85

\* SELECT patient_id FROM patients WHERE patient_id = ?
SelectById(tbl, id) == { p.patient_id : p \in { q \in tbl : q.patient_id = id } }

\* SELECT patient_id, patient_name FROM patients WHERE last_name = ? OR first_name = ?
SelectCandidates(tbl, last_name, first_name) ==
    { p \in tbl : p.last_name = last_name \/ p.first_name = first_name }

\* line 262: fuzz.ratio(full_name.lower(), candidate_name.lower())
Score(full_name, candidate_name) == FuzzRatio(Lower(full_name), Lower(candidate_name))

\* mutant of BestMatches: no candidate is ever taken for a match
BestMatchesNone(cands, full_name) == {}

\* lines 258-265: the ids best_match can end with.  The loop keeps the first
\* candidate, in the order the SELECT returns them, whose score is the largest
\* and at least the threshold; the SELECT has no ORDER BY, so any candidate with
\* that score can come first.  The empty set when no candidate qualifies.
BestMatches(cands, full_name) ==
    { c.patient_id : c \in
        { d \in cands :
            /\ Score(full_name, d.patient_name) >= Threshold
            /\ Score(full_name, d.patient_name) > 0
            /\ \A e \in cands :
                   Score(full_name, e.patient_name) <= Score(full_name, d.patient_name) } }

\* mutant of NextPatientId: the number of rows plus one instead of the maximum plus one
NextPatientIdByCount(tbl) == Cardinality(tbl) + 1

\* SELECT MAX(patient_id) FROM patients, then (max_id or 0) + 1: the maximum is
\* None on an empty table, and None and 0 both count as 0
NextPatientId(tbl) ==
    IF tbl = {} THEN 0 + 1
    ELSE (CHOOSE m \in { p.patient_id : p \in tbl } : \A p \in tbl : p.patient_id <= m) + 1

\* INSERT OR REPLACE INTO patients: a row with the same patient_id is replaced
InsertOrReplace(tbl, row) == { p \in tbl : p.patient_id # row.patient_id } \cup { row }

\* f"ETL_{self.import_batch}"
CreatedBy(batch) == << "ETL", batch >>

\* lines 280-288: the row the create step writes
NewPatientRow(id, e, batch) ==
    [patient_id   |-> id,
     patient_name |-> e.full_name,
     first_name   |-> e.first_name,
     last_name    |-> e.last_name,
     status       |-> "Active",
     created_by   |-> CreatedBy(batch)]

\* lines 272-278: the id the create step uses
CreateId(tbl, pid) == IF Truthy(pid) THEN pid[1] ELSE NextPatientId(tbl)

\* lines 226-227: the patient_id argument, or else the id extracted from the name
EffectivePatientId(patient_id_arg, patient_name) ==
    IF patient_id_arg = None
    THEN extract_patient_id_from_name(patient_name).pid
    ELSE patient_id_arg

\* mutant of find_or_create_patient: the fuzzy name match is tried before the
\* lookup by id, so a matching name overrides an explicit id
find_or_create_patient_name_first(tbl, patient_id_arg, patient_name, batch) ==
    LET e     == extract_patient_id_from_name(patient_name)
        pid   == EffectivePatientId(patient_id_arg, patient_name)
        byId  == IF Truthy(pid) THEN SelectById(tbl, pid[1]) ELSE {}
        best  == BestMatches(SelectCandidates(tbl, e.last_name, e.first_name), e.full_name)
        new   == CreateId(tbl, pid)
    IN  IF best # {}
        THEN { [ret |-> Some(b), patients |-> tbl, matched |-> 1, created |-> 0] :
                   b \in best }
        ELSE IF byId # {}
        THEN { [ret |-> Some(id), patients |-> tbl, matched |-> 1, created |-> 0] :
                   id \in byId }
        ELSE { [ret |-> Some(new),
                patients |-> InsertOrReplace(tbl, NewPatientRow(new, e, batch)),
                matched |-> 0, created |-> 1] }

\* find_or_create_patient run alone on table tbl: the set of its outcomes,
\* each the id returned, the table afterwards and the counters' increments
find_or_create_patient(tbl, patient_id_arg, patient_name, batch) ==
    LET e     == extract_patient_id_from_name(patient_name)
        pid   == EffectivePatientId(patient_id_arg, patient_name)
        byId  == IF Truthy(pid) THEN SelectById(tbl, pid[1]) ELSE {}
        best  == BestMatches(SelectCandidates(tbl, e.last_name, e.first_name), e.full_name)
        picks == IF best = {} THEN { None } ELSE { Some(b) : b \in best }
        new   == CreateId(tbl, pid)
    IN  IF byId # {}
        THEN { [ret |-> Some(id), patients |-> tbl, matched |-> 1, created |-> 0] :
                   id \in byId }
        ELSE { IF Truthy(best_match)
               THEN [ret |-> best_match, patients |-> tbl, matched |-> 1, created |-> 0]
               ELSE [ret |-> Some(new),
                     patients |-> InsertOrReplace(tbl, NewPatientRow(new, e, batch)),
                     matched |-> 0, created |-> 1] : best_match \in picks }

\* the counters of HomeHealthETL.__init__
ZeroStats ==
    [files_processed |-> 0, records_read |-> 0, records_imported |-> 0,
     records_updated |-> 0, records_failed |-> 0,
     patients_matched |-> 0, patients_created |-> 0]

\* the calls this pipeline instance has made
Calls == stats.patients_matched + stats.patients_created

\* the processes that resolve patients at the same time, each a pipeline
\* instance with its own import_batch and its own connections
Workers == { "B1", "B2" }

\* a worker that is not inside find_or_create_patient
IdleConn == [pc |-> "idle"]

vars ==
    << patients, stats, import_batch, call, ret, conn, lock, visits, store, log,
       claims_df, costs_df, report, files, response,
       directory, run, import_log, claims_table, normalized >>

\* the state of process_directory and of the tables it writes
pipeVars == << directory, run, import_log, claims_table >>

\* process_directory is not running
IdleRun == [pc |-> "idle"]

\* no input directory, no import logged, no claim stored
PipelineIdle ==
    /\ directory = << >>
    /\ run = IdleRun
    /\ import_log = << >>
    /\ claims_table = << >>

\* the state of the /profitability endpoints
apiVars == << files, response >>

\* no source file and no request yet
ApiIdle ==
    /\ files = None
    /\ response = None

\* the state of the profitability analyzer
analysisVars == << claims_df, costs_df, report >>

\* a ProfitabilityAnalyzer that has loaded nothing
AnalyzerIdle ==
    /\ claims_df = None
    /\ costs_df = None
    /\ report = None

\* the state of the concurrent resolutions
concVars == << conn, lock >>

\* no concurrent resolution is running
ConcIdle ==
    /\ conn = [w \in Workers |-> IdleConn]
    /\ lock = None

\* the state of the visits table and of store_visits
visitVars == << visits, store, log >>

\* store_visits is not running
IdleStore == [pc |-> "idle"]

\* an empty visits table, no store_visits call made
VisitsIdle ==
    /\ visits = << >>
    /\ store = IdleStore
    /\ log = << >>

\* an empty warehouse and a fresh pipeline instance
Init ==
    /\ patients = {}
    /\ stats = ZeroStats
    /\ import_batch = FirstBatch
    /\ call = << >>
    /\ ret = None
    /\ ConcIdle
    /\ VisitsIdle
    /\ AnalyzerIdle
    /\ ApiIdle
    /\ PipelineIdle
    /\ normalized = None

\* mutant of Counted: an identity created is counted as matched
CountedAsMatched(counters, o) ==
    [counters EXCEPT !.patients_matched = @ + o.matched + o.created]

\* lines 245, 269, 291: the counter the call increments
Counted(counters, o) ==
    [counters EXCEPT !.patients_matched = @ + o.matched,
                     !.patients_created = @ + o.created]

\* one call find_or_create_patient(patient_id, patient_name), run alone
Resolve(patient_id, patient_name) ==
    /\ Calls < MaxCalls
    /\ \E o \in find_or_create_patient(patients, patient_id, patient_name, import_batch) :
          /\ Cardinality(o.patients) <= MaxPatients
          /\ patients' = o.patients
          /\ stats' = Counted(stats, o)
          /\ ret' = o.ret
    /\ call' = << [patient_id |-> patient_id, patient_name |-> patient_name] >>
    /\ UNCHANGED << import_batch, concVars, visitVars, analysisVars, apiVars, pipeVars, normalized >>

\* a later pipeline run: HomeHealthETL.__init__ takes a new import_batch and
\* zeroes the counters; the warehouse stays
NewPipeline ==
    /\ import_batch \in DOMAIN NextBatch
    /\ import_batch' = NextBatch[import_batch]
    /\ stats' = ZeroStats
    /\ call' = << >>
    /\ ret' = None
    /\ UNCHANGED << patients, concVars, visitVars, analysisVars, apiVars, pipeVars, normalized >>

Next ==
    \/ \E patient_id \in PidArgs, patient_name \in Names : Resolve(patient_id, patient_name)
    \/ NewPipeline

Spec == Init /\ [][Next]_vars

(***************************************************************************)
(* Claims about the resolver, checked under Spec                           *)
(***************************************************************************)

\* the step is a find_or_create_patient call (NewPipeline clears call)
IsResolveStep == call' # << >> /\ stats' # stats

\* the explicit id of the call made by the step
StepPid == EffectivePatientId(call'[1].patient_id, call'[1].patient_name)

\* the name components of the call made by the step
StepName == extract_patient_id_from_name(call'[1].patient_name)

\* C1: a call whose explicit patient id (argument, or embedded in the name) is
\* already in the registry returns exactly that id, whatever the name, and
\* leaves the registry as it was.
C1_ExplicitIdShortCircuit ==
    [][ (IsResolveStep /\ StepPid # None
            /\ (\E p \in patients : p.patient_id = StepPid[1]))
        => (ret' = StepPid /\ patients' = patients) ]_vars

\* C1 witness: a call with an explicit id returned that id although another
\* identity carries exactly the name of the call, and the identity with the id
\* carries another name (so it was found by id, not created by this call).
C1_Witness ==
    /\ call # << >>
    /\ LET pid  == EffectivePatientId(call[1].patient_id, call[1].patient_name)
           full == extract_patient_id_from_name(call[1].patient_name).full_name
       IN  /\ pid # None
           /\ ret = pid
           /\ (\E p \in patients : p.patient_id = pid[1] /\ p.patient_name # full)
           /\ (\E q \in patients : q.patient_id # pid[1] /\ q.patient_name = full)

\* C2 as stated: two calls in a row without explicit id whose full names have
\* similarity >= 0.85 return the same id, and the second creates nothing.
C2_TwoSpellingsSameId ==
    [][ (IsResolveStep /\ call # << >>
            /\ StepPid = None
            /\ EffectivePatientId(call[1].patient_id, call[1].patient_name) = None
            /\ Score(StepName.full_name,
                     extract_patient_id_from_name(call[1].patient_name).full_name)
                 >= Threshold)
        => (ret' = ret /\ patients' = patients) ]_vars

\* C3 as stated: a call whose name scores below 0.85 against every registered
\* full name (and whose explicit id, if any, is not registered) adds exactly one
\* identity and returns its id: max + 1 without explicit id, else the explicit
\* id; the identity is Active and created_by the calling batch.
C3_BelowThresholdCreates ==
    [][ (IsResolveStep
            /\ (\A p \in patients : Score(StepName.full_name, p.patient_name) < Threshold)
            /\ (StepPid # None => \A q \in patients : q.patient_id # StepPid[1]))
        => LET id == IF StepPid = None THEN NextPatientId(patients) ELSE StepPid[1]
           IN  /\ ret' = Some(id)
               /\ patients' = patients \cup
                      { [patient_id   |-> id,
                         patient_name |-> StepName.full_name,
                         first_name   |-> StepName.first_name,
                         last_name    |-> StepName.last_name,
                         status       |-> "Active",
                         created_by   |-> CreatedBy(import_batch)] }
               /\ Cardinality(patients') = Cardinality(patients) + 1 ]_vars

\* C4 as stated: the registry never holds two identities whose full names
\* normalize to the same NameKey.
C4_NoTwoIdentitiesOneNameKey ==
    \A p, q \in patients :
        p # q => normalize_name(p.patient_name) # normalize_name(q.patient_name)

\* C6: every identity, once created, stays in the registry with the same
\* patient_id, names, status and created_by: no call replaces or rewrites a row.
C6_IdentitiesNeverOverwritten ==
    [][ \A p \in patients : p \in patients' ]_vars

\* C6 witness: a second pipeline has created an identity next to one created
\* by the first pipeline, under an id larger than an explicit id in use.
C6_Witness ==
    /\ \E p, q \in patients :
          /\ p.created_by = CreatedBy(FirstBatch)
          /\ q.created_by # CreatedBy(FirstBatch)
          /\ q.patient_id > p.patient_id
    /\ stats.patients_created > 0

\* C7 as stated: a call with no explicit id and an empty name returns no id and
\* leaves the registry unchanged.
C7_EmptyNameFails ==
    [][ (IsResolveStep /\ call'[1].patient_id = None /\ call'[1].patient_name = << >>)
        => (ret' = None /\ patients' = patients) ]_vars

(***************************************************************************)
(* find_or_create_patient run by two processes at once (SpecConc).  Each   *)
(* cursor.execute is one step.  sqlite3.connect leaves the connection in   *)
(* its default mode: a SELECT runs in autocommit, the INSERT opens a       *)
(* transaction that takes the database's write lock, conn.commit() makes   *)
(* the row visible to the other connection and releases the lock.          *)
(***************************************************************************)

\* lines 223-227: the call starts; nothing has touched the database yet
ConcBegin(w, patient_id, patient_name) ==
    /\ conn[w].pc = "idle"
    /\ conn' = [conn EXCEPT ![w] =
                   [pc      |-> "lookup",
                    name    |-> patient_name,
                    e       |-> extract_patient_id_from_name(patient_name),
                    pid     |-> EffectivePatientId(patient_id, patient_name),
                    explicit |-> EffectivePatientId(patient_id, patient_name),
                    found   |-> None,
                    matched |-> 0,
                    created |-> 0]]
    /\ UNCHANGED << patients, stats, import_batch, call, ret, lock, visitVars, analysisVars, apiVars, pipeVars, normalized >>

\* lines 237-246: the lookup by id
ConcLookupById(w) ==
    /\ conn[w].pc = "lookup"
    /\ LET byId == IF Truthy(conn[w].pid) THEN SelectById(patients, conn[w].pid[1]) ELSE {}
       IN  IF byId # {}
           THEN \E id \in byId :
                    conn' = [conn EXCEPT ![w].pc = "commit", ![w].found = Some(id),
                                         ![w].matched = 1]
           ELSE conn' = [conn EXCEPT ![w].pc = "fuzzy"]
    /\ UNCHANGED << patients, stats, import_batch, call, ret, lock, visitVars, analysisVars, apiVars, pipeVars, normalized >>

\* lines 249-270: the candidate scan and the fuzzy match
ConcFuzzyMatch(w) ==
    /\ conn[w].pc = "fuzzy"
    /\ LET e     == conn[w].e
           best  == BestMatches(SelectCandidates(patients, e.last_name, e.first_name),
                                e.full_name)
           picks == IF best = {} THEN { None } ELSE { Some(b) : b \in best }
       IN  \E best_match \in picks :
               IF Truthy(best_match)
               THEN conn' = [conn EXCEPT ![w].pc = "commit", ![w].found = best_match,
                                         ![w].matched = 1]
               ELSE conn' = [conn EXCEPT ![w].pc = "create"]
    /\ UNCHANGED << patients, stats, import_batch, call, ret, lock, visitVars, analysisVars, apiVars, pipeVars, normalized >>

\* lines 273-278: the id of the new identity, MAX(patient_id) + 1 read now
ConcSelectMax(w) ==
    /\ conn[w].pc = "create"
    /\ conn' = [conn EXCEPT ![w].pc = "insert",
                            ![w].pid = Some(CreateId(patients, conn[w].pid))]
    /\ UNCHANGED << patients, stats, import_batch, call, ret, lock, visitVars, analysisVars, apiVars, pipeVars, normalized >>

\* lines 280-291: INSERT OR REPLACE opens the write transaction
ConcInsert(w) ==
    /\ conn[w].pc = "insert"
    /\ lock = None
    /\ lock' = Some(w)
    /\ conn' = [conn EXCEPT ![w].pc = "commit", ![w].found = conn[w].pid,
                            ![w].created = 1]
    /\ UNCHANGED << patients, stats, import_batch, call, ret, visitVars, analysisVars, apiVars, pipeVars, normalized >>

\* lines 280-288, 297-299: the other connection holds the write lock for longer
\* than the busy timeout: "database is locked", caught, the call returns None
ConcInsertLocked(w) ==
    /\ conn[w].pc = "insert"
    /\ lock # None
    /\ lock # Some(w)
    /\ conn' = [conn EXCEPT ![w].pc = "done", ![w].found = None]
    /\ UNCHANGED << patients, stats, import_batch, call, ret, lock, visitVars, analysisVars, apiVars, pipeVars, normalized >>

\* lines 294-295: conn.commit() and return found_patient_id
ConcCommit(w) ==
    /\ conn[w].pc = "commit"
    /\ IF lock = Some(w)
       THEN /\ patients' = InsertOrReplace(patients,
                               NewPatientRow(conn[w].pid[1], conn[w].e, w))
            /\ lock' = None
       ELSE UNCHANGED << patients, lock >>
    /\ conn' = [conn EXCEPT ![w].pc = "done"]
    /\ UNCHANGED << stats, import_batch, call, ret, visitVars, analysisVars, apiVars, pipeVars, normalized >>

\* an empty warehouse and two processes about to resolve a patient
InitConc == Init

NextConc ==
    \E w \in Workers :
        \/ \E patient_id \in PidArgs, patient_name \in Names :
               ConcBegin(w, patient_id, patient_name)
        \/ ConcLookupById(w)
        \/ ConcFuzzyMatch(w)
        \/ ConcSelectMax(w)
        \/ ConcInsert(w)
        \/ ConcInsertLocked(w)
        \/ ConcCommit(w)

SpecConc == InitConc /\ [][NextConc]_vars

\* C5: when both workers resolve the same non-empty name on a warehouse that
\* did not hold it, the registry never holds two distinct identities carrying
\* that name (the candidate scan and the create of one resolution are atomic
\* with respect to the other).
C5_ConcurrentSameNameOneIdentity ==
    \A v, w \in Workers :
        (/\ v # w
         /\ conn[v].pc # "idle"
         /\ conn[w].pc # "idle"
         /\ conn[v].name = conn[w].name
         /\ conn[v].e.full_name # << >>)
        => Cardinality({ p \in patients : p.patient_name = conn[v].e.full_name }) <= 1

(***************************************************************************)
(* store_visits (SpecVisits).  The outer connection of store_visits runs   *)
(* the duplicate check and the INSERT of every visit and commits once,     *)
(* after the loop; find_or_create_patient opens its own connection for     *)
(* every visit.  While the outer connection holds an uncommitted INSERT    *)
(* it holds the write lock of the database, so an INSERT of the inner      *)
(* connection fails with "database is locked".                             *)
(***************************************************************************)

\* the dates of the visits
VisitDates == { "2024-01-05" }

\* the visit dicts handed to store_visits; patient_name << >> is the default
\* of visit.get('patient_name', ''), service_code None a dict without the key
VisitRecords ==
    [patient_id   : { None },
     patient_name : { NameDoeJane, NameLeeAnn, NameEmpty },
     visit_date   : VisitDates,
     service_code : { None, Some("SN") }]

\* the visit lists handed to store_visits: one or two records
VisitLists ==
    { << r >> : r \in VisitRecords } \cup { << r, s >> : r, s \in VisitRecords }

\* how many store_visits calls are made
MaxStores == 2

\* line 629: the parameter bound to service_code = ?
DupParam(visit) ==
    IF visit.service_code = None THEN Some("") ELSE visit.service_code

\* the duplicate SELECT comparing a stored NULL as equal to the parameter ''
IsDuplicateNullAsEmpty(tbl, patient_id, visit) ==
    \E i \in DOMAIN tbl :
        /\ tbl[i].patient_id = patient_id
        /\ tbl[i].visit_date = visit.visit_date
        /\ DupParam(tbl[i]) = DupParam(visit)

\* lines 626-631: the duplicate SELECT; a stored NULL equals no parameter
IsDuplicate(tbl, patient_id, visit) ==
    \E i \in DOMAIN tbl :
        /\ tbl[i].patient_id = patient_id
        /\ tbl[i].visit_date = visit.visit_date
        /\ tbl[i].service_code # None
        /\ tbl[i].service_code = DupParam(visit)

\* mutant of VisitRow: the row carries the patient_id of the visit dict (0 when
\* it has none), not the id the resolver returned
VisitRowOfRecordId(patient_id, visit, batch) ==
    [patient_id   |-> IF visit.patient_id = None THEN 0 ELSE visit.patient_id[1],
     visit_date   |-> visit.visit_date,
     service_code |-> visit.service_code,
     import_batch |-> batch]

\* lines 636-653: the row INSERTed for a visit
VisitRow(patient_id, visit, batch) ==
    [patient_id   |-> patient_id,
     visit_date   |-> visit.visit_date,
     service_code |-> visit.service_code,
     import_batch |-> batch]

\* lines 600-609: store_visits is called with a list; an empty list returns
StoreVisitsBegin(list) ==
    /\ store.pc = "idle"
    /\ Len(log) < MaxStores
    /\ list # << >>
    /\ store' = [pc |-> "loop", visits |-> list, pos |-> 1, txn |-> FALSE,
                 branch |-> "none"]
    /\ UNCHANGED << patients, stats, import_batch, call, ret, concVars, visits, log, analysisVars, apiVars, pipeVars, normalized >>

\* lines 611-660: one pass of the loop.  branch names the way the pass left
\* the loop body: the continue of line 623, the continue of line 633, the
\* statement of line 655 or the except clause of line 657.
StoreVisit ==
    /\ store.pc = "loop"
    /\ store.pos <= Len(store.visits)
    /\ LET visit == store.visits[store.pos]
       IN  \E o \in find_or_create_patient(patients, visit.patient_id,
                                           visit.patient_name, import_batch) :
               LET locked     == o.created = 1 /\ store.txn
                   patient_id == IF locked THEN None ELSE o.ret
                   unresolved == ~Truthy(patient_id)
                   \* line 629: visit['visit_date'] of a dict without the key
                   raised     == ~unresolved /\ "visit_date" \notin DOMAIN visit
                   failed     == unresolved \/ raised
                   duplicate  == ~failed /\ IsDuplicate(visits, patient_id[1], visit)
                   inserted   == ~failed /\ ~duplicate
               IN  /\ patients' = IF locked THEN patients ELSE o.patients
                   /\ stats' =
                        [stats EXCEPT
                           !.patients_matched = @ + (IF locked THEN 0 ELSE o.matched),
                           !.patients_created = @ + (IF locked THEN 0 ELSE o.created),
                           !.records_failed   = @ + (IF failed THEN 1 ELSE 0),
                           !.records_imported = @ + (IF inserted THEN 1 ELSE 0)]
                   /\ visits' = IF inserted
                                THEN Append(visits, VisitRow(patient_id[1], visit, import_batch))
                                ELSE visits
                   /\ store' = [store EXCEPT
                                  !.pos = @ + 1,
                                  !.txn = @ \/ inserted,
                                  !.branch = IF unresolved THEN "unresolved"
                                             ELSE IF raised THEN "raised"
                                             ELSE IF duplicate THEN "duplicate"
                                             ELSE "inserted"]
    /\ UNCHANGED << import_batch, call, ret, concVars, log, analysisVars, apiVars, pipeVars, normalized >>

\* line 662: conn.commit() after the loop, and the return
StoreVisitsCommit ==
    /\ store.pc = "loop"
    /\ store.pos > Len(store.visits)
    /\ store' = IdleStore
    /\ log' = Append(log, [visits |-> store.visits, count |-> Len(visits)])
    /\ UNCHANGED << patients, stats, import_batch, call, ret, concVars, visits, analysisVars, apiVars, pipeVars, normalized >>

\* an empty warehouse and a fresh pipeline instance
InitVisits == Init

NextVisits ==
    \/ \E list \in VisitLists : StoreVisitsBegin(list)
    \/ StoreVisit
    \/ StoreVisitsCommit

SpecVisits == InitVisits /\ [][NextVisits]_vars

\* C8: after any sequence of store_visits calls no two stored visits share
\* (patient_id, visit_date, service_code), a visit without service_code included.
C8_VisitTupleUnique ==
    store.pc = "idle" =>
        \A i, j \in DOMAIN visits :
            (/\ visits[i].patient_id = visits[j].patient_id
             /\ visits[i].visit_date = visits[j].visit_date
             /\ visits[i].service_code = visits[j].service_code)
            => i = j

\* C9: storing the same list of visits a second time leaves the number of
\* stored visits where the first ingestion left it.
C9_ReingestKeepsCount ==
    \A i \in DOMAIN log :
        (i > 1 /\ log[i].visits = log[i - 1].visits)
        => log[i].count = log[i - 1].count

(***************************************************************************)
(* The amounts of the reports.  pandas holds Total_Amount and Paid Amount  *)
(* as float64 and float(series.sum()) adds them in IEEE-754 binary64, so   *)
(* an amount is modelled as the double it is: neg is its sign, sig are the *)
(* bits of its significand, most significant first, without leading or     *)
(* trailing 0, and exp is the power of two the last bit stands for; 0.0    *)
(* has no bits.  nan marks the missing value NaN.  Amounts are far from    *)
(* the ends of the exponent range, and no -0.0 arises from them.           *)
(***************************************************************************)

\* the bits of the significand of a binary64
Precision == 53

\* 0.0
Zero == [nan |-> FALSE, neg |-> FALSE, sig |-> << >>, exp |-> 0]

\* NaN: the value of an empty numeric cell
NaN == [nan |-> TRUE, neg |-> FALSE, sig |-> << >>, exp |-> 0]

\* the number with these bits, the last one standing for 2^exp
Canonical(bits, exp) ==
    LET ones  == { i \in DOMAIN bits : bits[i] = 1 }
        first == CHOOSE i \in ones : \A j \in 1..(i - 1) : bits[j] = 0
        last  == CHOOSE i \in ones : \A j \in (i + 1)..Len(bits) : bits[j] = 0
    IN  IF ones = {} THEN Zero
        ELSE [nan |-> FALSE, neg |-> FALSE,
              sig |-> SubSeq(bits, first, last), exp |-> exp + (Len(bits) - last)]

\* -x
Negate(x) == IF x.sig = << >> THEN x ELSE [x EXCEPT !.neg = ~ @]

\* n 0s
Zeros(n) == [i \in 1..n |-> 0]

RECURSIVE AddRange(_, _, _, _, _)
\* binary addition of bits lo..hi of two bit strings with a carry coming in:
\* the sum's bits and the carry going out, the halves added right to left
AddRange(a, b, lo, hi, carry) ==
    IF lo = hi
    THEN LET sum == a[lo] + b[lo] + carry
         IN  [bits |-> << sum % 2 >>, carry |-> sum \div 2]
    ELSE LET mid   == (lo + hi) \div 2
             right == AddRange(a, b, mid + 1, hi, carry)
             left  == IF right.carry = 0
                      THEN AddRange(a, b, lo, mid, 0)
                      ELSE AddRange(a, b, lo, mid, 1)
         IN  [bits |-> left.bits \o right.bits, carry |-> left.carry]

\* binary addition of two bit strings of one length, not empty
AddBits(a, b) ==
    LET r == AddRange(a, b, 1, Len(a), 0)
    IN  << r.carry >> \o r.bits

\* a - b of two bit strings of one length, a >= b: a + ~b + 1, the carry dropped
SubBits(a, b) == AddRange(a, [i \in DOMAIN b |-> 1 - b[i]], 1, Len(a), 1).bits

\* a < b for two bit strings of one length
BitsLess(a, b) ==
    \E i \in DOMAIN a : a[i] < b[i] /\ \A j \in 1..(i - 1) : a[j] = b[j]

\* x with this sign; 0.0 keeps its own
WithSign(x, neg) == IF x.sig = << >> THEN x ELSE [x EXCEPT !.neg = neg]

\* x + y as a real number
ExactAdd(x, y) ==
    IF x.sig = << >> THEN y
    ELSE IF y.sig = << >> THEN x
    ELSE LET e == IF x.exp < y.exp THEN x.exp ELSE y.exp
             a == x.sig \o Zeros(x.exp - e)
             b == y.sig \o Zeros(y.exp - e)
             n == IF Len(a) > Len(b) THEN Len(a) ELSE Len(b)
             p == Zeros(n - Len(a)) \o a
             q == Zeros(n - Len(b)) \o b
         IN  IF x.neg = y.neg THEN WithSign(Canonical(AddBits(p, q), e), x.neg)
             ELSE IF BitsLess(p, q) THEN WithSign(Canonical(SubBits(q, p), e), y.neg)
             ELSE WithSign(Canonical(SubBits(p, q), e), x.neg)

\* the nearest binary64, ties to the even significand
RoundToDouble(x) ==
    IF Len(x.sig) <= Precision THEN x
    ELSE LET keep   == SubSeq(x.sig, 1, Precision)
             rest   == SubSeq(x.sig, Precision + 1, Len(x.sig))
             sticky == \E i \in 2..Len(rest) : rest[i] = 1
             up     == rest[1] = 1 /\ (sticky \/ keep[Precision] = 1)
             one    == [i \in 1..Precision |-> IF i = Precision THEN 1 ELSE 0]
         IN  WithSign(Canonical(IF up THEN AddBits(keep, one) ELSE keep,
                                x.exp + Len(rest)),
                      x.neg)

\* the exact sum that drops the low bits instead of rounding them
FloatAddTruncating(x, y) ==
    LET r == ExactAdd(x, y)
    IN  IF Len(r.sig) <= Precision THEN r
        ELSE WithSign(Canonical(SubSeq(r.sig, 1, Precision),
                                r.exp + Len(r.sig) - Precision),
                      r.neg)

\* x + y of two floats
FloatAdd(x, y) == IF x.nan \/ y.nan THEN NaN ELSE RoundToDouble(ExactAdd(x, y))

\* x - y of two floats
FloatSub(x, y) == FloatAdd(x, Negate(y))

\* x > 0
Positive(x) == ~ x.nan /\ ~ x.neg /\ x.sig # << >>

\* x < y; no comparison with NaN holds
FloatLess(x, y) ==
    /\ ~ x.nan /\ ~ y.nan
    /\ LET d == ExactAdd(x, Negate(y)) IN d.neg /\ d.sig # << >>

RECURSIVE FloatSumFrom(_, _, _)
\* the running sum over amounts[i..], the missing values skipped
FloatSumFrom(amounts, i, acc) ==
    IF i > Len(amounts) THEN acc
    ELSE FloatSumFrom(amounts, i + 1,
                      IF amounts[i].nan THEN acc ELSE FloatAdd(acc, amounts[i]))

\* Series.sum() of a float64 column: 0.0 for no row, else added in row order,
\* NaN skipped
FloatSum(amounts) == FloatSumFrom(amounts, 1, Zero)

\* Kahan's compensated addition of val to the sum [sumx, compensation]
KahanAdd(acc, val) ==
    LET y == FloatSub(val, acc.compensation)
        s == FloatAdd(acc.sumx, y)
    IN  [sumx |-> s, compensation |-> FloatSub(FloatSub(s, acc.sumx), y)]

RECURSIVE GroupSumFrom(_, _, _)
\* the compensated running sum over amounts[i..], the missing values skipped
GroupSumFrom(amounts, i, acc) ==
    IF i > Len(amounts) THEN acc.sumx
    ELSE GroupSumFrom(amounts, i + 1,
                      IF amounts[i].nan THEN acc ELSE KahanAdd(acc, amounts[i]))

\* GroupBy.sum() of the float64 values of one group (pandas 1.2 and later add
\* them with Kahan's compensation): 0.0 when every value is missing
GroupSum(amounts) == GroupSumFrom(amounts, 1, [sumx |-> Zero, compensation |-> Zero])

\* the long division holds the divisor and the remainder, of 54 bits at
\* most, as two integers: [hi, lo] stands for hi * Limb + lo
Limb == 2^27

RECURSIVE BitsValue(_, _, _)
\* the number that bits lo..hi spell
BitsValue(bits, lo, hi) ==
    IF lo > hi THEN 0
    ELSE IF lo = hi THEN bits[lo]
    ELSE LET mid == (lo + hi) \div 2
         IN  BitsValue(bits, lo, mid) * 2^(hi - mid) + BitsValue(bits, mid + 1, hi)

\* the number a bit string spells, as [hi, lo]
Limbs(bits) ==
    LET cut == IF Len(bits) > 27 THEN Len(bits) - 27 ELSE 0
    IN  [hi |-> BitsValue(bits, 1, cut), lo |-> BitsValue(bits, cut + 1, Len(bits))]

\* one step of the long division by d: the next bit of the dividend is
\* appended to the remainder, and d is taken off when it fits
DivStep(rem, bit, d) ==
    LET low == 2 * rem.lo + bit
        lo  == low % Limb
        hi  == 2 * rem.hi + low \div Limb
    IN  IF hi > d.hi \/ (hi = d.hi /\ lo >= d.lo)
        THEN [bits |-> << 1 >>,
              rem  |-> IF lo >= d.lo THEN [hi |-> hi - d.hi, lo |-> lo - d.lo]
                       ELSE [hi |-> hi - d.hi - 1, lo |-> lo + Limb - d.lo]]
        ELSE [bits |-> << 0 >>, rem |-> [hi |-> hi, lo |-> lo]]

RECURSIVE DivRange(_, _, _, _, _)
\* the long division of bits lo..hi of n by d, rem the remainder so far
DivRange(rem, n, d, lo, hi) ==
    IF lo = hi THEN DivStep(rem, n[lo], d)
    ELSE LET mid   == (lo + hi) \div 2
             left  == DivRange(rem, n, d, lo, mid)
             right == DivRange(left.rem, n, d, mid + 1, hi)
         IN  [bits |-> left.bits \o right.bits, rem |-> right.rem]

\* x / y to more bits than a binary64 holds, the last bit telling whether
\* anything was left over; x and y are not 0.  The division starts with the
\* bits of x that are too few to hold y.
Quotient(x, y) ==
    LET m    == Len(y.sig)
        need == m + Precision + 2 - Len(x.sig)
        k    == IF need > 0 THEN need ELSE 0
        n    == x.sig \o Zeros(k)
        r    == DivRange(Limbs(SubSeq(n, 1, m - 1)), n, Limbs(y.sig), m, Len(n))
        left == IF r.rem.hi = 0 /\ r.rem.lo = 0 THEN 0 ELSE 1
    IN  WithSign(Canonical(r.bits \o << left >>, x.exp - k - y.exp - 1),
                 x.neg # y.neg)

\* x / y of two floats, y not 0
FloatDiv(x, y) == IF x.sig = << >> THEN Zero ELSE RoundToDouble(Quotient(x, y))

\* x * 2^k
Scale(x, k) == IF x.sig = << >> THEN x ELSE [x EXCEPT !.exp = @ + k]

\* x * 100 of a float: 64 x + 32 x + 4 x, rounded once
FloatTimes100(x) ==
    RoundToDouble(ExactAdd(ExactAdd(Scale(x, 6), Scale(x, 5)), Scale(x, 2)))

\* 10.0
Ten == [nan |-> FALSE, neg |-> FALSE, sig |-> << 1, 0, 1 >>, exp |-> 1]

\* the integer nearest to the number x, ties to the even one
NearestInteger(x) ==
    IF x.exp >= 0 THEN x
    ELSE LET pad  == 1 - x.exp - Len(x.sig)
             bits == (IF pad > 0 THEN Zeros(pad) ELSE << >>) \o x.sig
             cut  == Len(bits) + x.exp
             int  == SubSeq(bits, 1, cut)
             frac == SubSeq(bits, cut + 1, Len(bits))
             more == \E i \in 2..Len(frac) : frac[i] = 1
             up   == frac[1] = 1 /\ (more \/ int[cut] = 1)
             one  == [i \in 1..cut |-> IF i = cut THEN 1 ELSE 0]
         IN  WithSign(Canonical(IF up THEN AddBits(int, one) ELSE int, 0), x.neg)

\* round(x, 1) of a float: the exact value of x is rounded to one decimal,
\* ties to the even digit, and the float nearest to that decimal is returned
RoundOneDecimal(x) ==
    LET tenths == NearestInteger(ExactAdd(Scale(x, 3), Scale(x, 1)))
    IN  IF tenths.sig = << >> THEN Zero ELSE RoundToDouble(Quotient(tenths, Ten))

\* the four bits of a hexadecimal digit
HexBits(d) == << (d \div 8) % 2, (d \div 4) % 2, (d \div 2) % 2, d % 2 >>

RECURSIVE HexString(_)
\* the bits of a string of hexadecimal digits
HexString(ds) ==
    IF ds = << >> THEN << >> ELSE HexBits(Head(ds)) \o HexString(Tail(ds))

\* the double float.hex() writes as 0x1.<frac>p<e>
Double(frac, e) == Canonical(<< 1 >> \o HexString(frac), e - 4 * Len(frac))

\* 0.1 = 0x1.999999999999ap-4
Amount010 == Double(<< 9, 9, 9, 9, 9, 9, 9, 9, 9, 9, 9, 9, 10 >>, -4)

\* 1.1 = 0x1.199999999999ap+0
Amount110 == Double(<< 1, 9, 9, 9, 9, 9, 9, 9, 9, 9, 9, 9, 10 >>, 0)

(***************************************************************************)
(* ProfitabilityAnalyzer (SpecAnalyze): load_data reads the claim list     *)
(* and the cost ledger, analyze categorizes every cost row and adds up     *)
(* the amounts of the categories.                                          *)
(***************************************************************************)

\* "Office": an administrative line of the cost ledger
NameOffice == << "O", "f", "f", "i", "c", "e" >>

\* the physicians of the claim list
PhysicianSmith == "Dr. Smith"
PhysicianJones == "Dr. Jones"
PhysicianA == "Dr. A"

\* a Claim Code cell that is filled; None stands for an empty cell
ClaimCode == << "G0151" >>

\* the employees of the cost ledger, whose column is named Physician
EmployeeNurseX == "Nurse X"
EmployeeNurseY == "Nurse Y"

\* "2025-01-01": what a Date cell holds; None stands for an empty cell
DateJan01 == << "2", "0", "2", "5", "-", "0", "1", "-", "0", "1" >>

\* the claim lists read from claims_path: Patient Name, Primary Physician,
\* Paid Amount, Claim Amount, Claim Code
ClaimTables ==
    { << >>,
      << [Patient_Name |-> NameDoeJane, Primary_Physician |-> PhysicianSmith,
          Paid_Amount |-> Amount110, Claim_Amount |-> Amount110,
          Claim_Code |-> ClaimCode] >>,
      << [Patient_Name |-> NameDoeJane, Primary_Physician |-> PhysicianSmith,
          Paid_Amount |-> Amount110, Claim_Amount |-> Amount110,
          Claim_Code |-> ClaimCode],
         [Patient_Name |-> NameLeeAnn, Primary_Physician |-> PhysicianJones,
          Paid_Amount |-> Amount010, Claim_Amount |-> Amount010,
          Claim_Code |-> ClaimCode] >> }

\* the rows of the cost ledger read from costs_path: Patient_Name, Physician,
\* Total_Amount, Date; an empty Patient_Name cell is read as NaN, which
\* astype(str) turns into 'nan'
CostRows ==
    [Patient_Name : { NameJaneDoe, NameLeeAnn, NameOffice, NaNString },
     Physician    : { EmployeeNurseX },
     Total_Amount : { Amount010, Amount110 },
     Date         : { Some(DateJan01) }]

\* the most rows a cost ledger has
MaxCostRows == 3

\* the cost ledgers read from costs_path
CostTables == UNION { [1..n -> CostRows] : n \in 1..MaxCostRows }

\* line 38: astype(str).replace('nan', '')
CleanPatientName(name) == IF name = NaNString THEN << >> ELSE name

\* line 38 on every row of the cost ledger
CleanCosts(costs) ==
    [i \in DOMAIN costs |-> [costs[i] EXCEPT !.Patient_Name = CleanPatientName(@)]]

\* lines 31-41: load_data
LoadData(claims, costs) ==
    /\ claims_df = None
    /\ claims_df' = Some(claims)
    /\ costs_df' = Some(CleanCosts(costs))
    /\ report' = None
    /\ UNCHANGED << patients, stats, import_batch, call, ret, concVars, visitVars,
                    apiVars, pipeVars, normalized >>

RECURSIVE SortedKeys(_)
\* the keys of a groupby, in sorted order
SortedKeys(keys) ==
    IF keys = {} THEN << >>
    ELSE LET least == CHOOSE k \in keys : \A o \in keys : o = k \/ StrLess(k, o)
         IN  << least >> \o SortedKeys(keys \ { least })

\* lines 58-60: the first claim row of the group of a norm_name
FirstClaim(claims, key) ==
    LET rows == { i \in DOMAIN claims : normalize_name(claims[i].Patient_Name) = key }
    IN  claims[CHOOSE i \in rows : \A j \in rows : i <= j]

\* an empty Primary Physician cell: read_csv gives NaN, a missing value
PhysicianNaN == "NaN"

\* line 59: GroupBy.first() of Primary Physician, the first value of the group
\* that is not missing; NaN when every value of the group is missing
FirstPhysician(claims, key) ==
    LET rows   == { i \in DOMAIN claims : normalize_name(claims[i].Patient_Name) = key }
        filled == { i \in rows : claims[i].Primary_Physician # PhysicianNaN }
    IN  IF filled = {} THEN PhysicianNaN
        ELSE claims[CHOOSE i \in filled : \A j \in filled : i <= j].Primary_Physician

\* lines 56-61: physician_lookup and patient_name_lookup as one sequence of
\* entries, in the order the dicts iterate
_build_physician_lookup(claims) ==
    LET keys == SortedKeys({ normalize_name(claims[i].Patient_Name) : i \in DOMAIN claims })
    IN  [k \in DOMAIN keys |->
            [norm_name |-> keys[k],
             physician |-> FirstPhysician(claims, keys[k]),
             patient   |-> FirstClaim(claims, keys[k]).Patient_Name]]

\* lines 74-75
overhead_keywords ==
    << << "t", "o", "t", "a", "l" >>,
       << "n", "o", "t", "e" >>,
       << "o", "f", "f", "i", "c", "e" >>,
       << "i", "n", "t", "a", "k", "e" >>,
       << "p", "a", "y" >>,
       << "a", "t", "t", "a", "c", "h", "e", "d" >>,
       << "o", "c", "t", "o", "b", "e", "r" >>,
       << "e", "x", "p", "e", "n", "s", "e" >>,
       << "s", "e", "e", " " >>,
       << "m", "o", "n", "t", "h", "l", "y" >> >>

\* kw in patient
Contains(s, sub) ==
    \E i \in 1..(Len(s) - Len(sub) + 1) : SubSeq(s, i, i + Len(sub) - 1) = sub

\* line 88: SequenceMatcher(None, norm, claim_norm).ratio() as the fraction
\* 2 * M / T; the floats of two such fractions compare as the fractions do
Ratio(a, b) ==
    IF Len(a) + Len(b) = 0 THEN [num |-> 1, den |-> 1]
    ELSE [num |-> 2 * Matches(a, b), den |-> Len(a) + Len(b)]

\* line 89 with score >= 0.7 in place of score > 0.7
BetterNotStrict(score, best_score) ==
    /\ score.num * best_score.den > best_score.num * score.den
    /\ 10 * score.num >= 7 * score.den

\* line 89: score > best_score and score > 0.7
Better(score, best_score) ==
    /\ score.num * best_score.den > best_score.num * score.den
    /\ 10 * score.num > 7 * score.den

RECURSIVE FuzzyScan(_, _, _, _)
\* lines 84-92: the loop over physician_lookup.items(), best the entry kept
FuzzyScan(norm, lookup, k, best) ==
    IF k > Len(lookup) THEN best
    ELSE LET score == Ratio(norm, lookup[k].norm_name)
         IN  FuzzyScan(norm, lookup, k + 1,
                       IF Better(score, best.score)
                       THEN [score |-> score, match |-> Some(lookup[k])]
                       ELSE best)

\* lines 63-97
_categorize_cost_record(row, lookup) ==
    LET patient == Strip(row.Patient_Name)
        norm    == normalize_name(row.Patient_Name)
        exact   == { k \in DOMAIN lookup : lookup[k].norm_name = norm }
        best    == FuzzyScan(norm, lookup, 1,
                             [score |-> [num |-> 0, den |-> 1], match |-> None])
    IN  IF patient = << >> \/ patient = NaNString
        THEN [Category |-> "NO_PATIENT", Matched_Physician |-> None,
              Matched_Claim_Patient |-> None]
        ELSE IF \E w \in DOMAIN overhead_keywords :
                    Contains(Lower(patient), overhead_keywords[w])
        THEN [Category |-> "OVERHEAD", Matched_Physician |-> None,
              Matched_Claim_Patient |-> None]
        ELSE IF exact # {}
        THEN LET k == CHOOSE k \in exact : TRUE
             IN  [Category |-> "MATCHED", Matched_Physician |-> Some(lookup[k].physician),
                  Matched_Claim_Patient |-> Some(lookup[k].patient)]
        ELSE IF best.match # None /\ best.match[1].physician # ""
        THEN [Category |-> "MATCHED", Matched_Physician |-> Some(best.match[1].physician),
              Matched_Claim_Patient |-> Some(best.match[1].patient)]
        ELSE [Category |-> "UNMATCHED", Matched_Physician |-> None,
              Matched_Claim_Patient |-> None]

RECURSIVE AmountsFrom(_, _, _)
\* the Total_Amount of the rows i.. that are of these categories
AmountsFrom(rows, categories, i) ==
    IF i > Len(rows) THEN << >>
    ELSE (IF rows[i].Category \in categories
          THEN << rows[i].Total_Amount >> ELSE << >>)
         \o AmountsFrom(rows, categories, i + 1)

\* lines 121-123, 133-135: the Total_Amount column of the rows of these categories
AmountsOf(rows, categories) == AmountsFrom(rows, categories, 1)

\* lines 109-118: the cost rows with the columns Category, Matched_Physician
\* and Matched_Claim_Patient added
Categorize(costs, lookup) ==
    [i \in DOMAIN costs |-> _categorize_cost_record(costs[i], lookup) @@ costs[i]]

\* the Total_Amount column of cost rows
TotalAmounts(rows) == [i \in DOMAIN rows |-> rows[i].Total_Amount]

\* lines 138 and 147, 174 and 182: profit as a percentage of revenue, 0 unless
\* revenue > 0, rounded to one decimal
Margin(profit, revenue) ==
    IF Positive(revenue)
    THEN RoundOneDecimal(FloatTimes100(FloatDiv(profit, revenue)))
    ELSE Zero

\* the number of different values of a column
NUnique(values) == Cardinality({ values[i] : i \in DOMAIN values })

\* lines 131-151 with the costs of the matched rows only taken off the revenue
OverallOfMatchedCosts(claims, rows) ==
    LET total_revenue == FloatSum([i \in DOMAIN claims |-> claims[i].Paid_Amount])
        matched_costs == FloatSum(AmountsOf(rows, { "MATCHED" }))
        gross_profit  == FloatSub(total_revenue, matched_costs)
    IN  [total_revenue     |-> total_revenue,
         total_costs       |-> FloatSum(TotalAmounts(rows)),
         matched_costs     |-> matched_costs,
         unmatched_costs   |-> FloatSum(AmountsOf(rows, { "UNMATCHED" })),
         overhead_costs    |-> FloatSum(AmountsOf(rows, { "OVERHEAD", "NO_PATIENT" })),
         gross_profit      |-> gross_profit,
         profit_margin     |-> Margin(gross_profit, total_revenue),
         total_claims      |-> Len(claims),
         unique_patients   |-> NUnique([i \in DOMAIN claims |-> claims[i].Patient_Name]),
         unique_physicians |->
             Cardinality({ claims[i].Primary_Physician : i \in DOMAIN claims }
                             \ { PhysicianNaN })]

\* lines 131-151: the overall metrics
Overall(claims, rows) ==
    LET total_revenue == FloatSum([i \in DOMAIN claims |-> claims[i].Paid_Amount])
        total_costs   == FloatSum(TotalAmounts(rows))
        gross_profit  == FloatSub(total_revenue, total_costs)
    IN  [total_revenue     |-> total_revenue,
         total_costs       |-> total_costs,
         matched_costs     |-> FloatSum(AmountsOf(rows, { "MATCHED" })),
         unmatched_costs   |-> FloatSum(AmountsOf(rows, { "UNMATCHED" })),
         overhead_costs    |-> FloatSum(AmountsOf(rows, { "OVERHEAD", "NO_PATIENT" })),
         gross_profit      |-> gross_profit,
         profit_margin     |-> Margin(gross_profit, total_revenue),
         total_claims      |-> Len(claims),
         unique_patients   |-> NUnique([i \in DOMAIN claims |-> claims[i].Patient_Name]),
         unique_physicians |->
             Cardinality({ claims[i].Primary_Physician : i \in DOMAIN claims }
                             \ { PhysicianNaN })]

\* the physicians of the runs in sorted order: the index of a groupby is sorted
PhysicianIndex == << PhysicianA, PhysicianJones, PhysicianSmith >>

\* the employees of the runs in sorted order
EmployeeIndex == << EmployeeNurseX, EmployeeNurseY >>

\* the keys of a groupby: the values of the column in sorted order, NaN left out
GroupKeys(values, index) ==
    SelectSeq(index, LAMBDA k : \E i \in DOMAIN values : values[i] = k)

\* lines 166-186 with the costs of every matched row charged to each physician
PhysicianRecordOfAllCosts(claims, rows, physician) ==
    LET group       == SelectSeq(claims, LAMBDA c : c.Primary_Physician = physician)
        matched     == SelectSeq(rows, LAMBDA r : r.Category = "MATCHED")
        revenue     == GroupSum([i \in DOMAIN group |-> group[i].Paid_Amount])
        direct_cost == GroupSum(TotalAmounts(matched))
        profit      == FloatSub(revenue, direct_cost)
    IN  [physician         |-> physician,
         revenue           |-> revenue,
         billed            |-> GroupSum([i \in DOMAIN group |-> group[i].Claim_Amount]),
         direct_costs      |-> direct_cost,
         profit            |-> profit,
         margin            |-> Margin(profit, revenue),
         patients          |-> NUnique([i \in DOMAIN group |-> group[i].Patient_Name]),
         claims            |-> Cardinality({ i \in DOMAIN group : group[i].Claim_Code # None }),
         has_matched_costs |-> Positive(direct_cost)]

\* lines 154-186: the record of one physician of revenue_by_physician.index
PhysicianRecord(claims, rows, physician) ==
    LET group       == SelectSeq(claims, LAMBDA c : c.Primary_Physician = physician)
        matched     == SelectSeq(rows, LAMBDA r : /\ r.Category = "MATCHED"
                                                  /\ r.Matched_Physician = Some(physician))
        revenue     == GroupSum([i \in DOMAIN group |-> group[i].Paid_Amount])
        direct_cost == GroupSum(TotalAmounts(matched))
        profit      == FloatSub(revenue, direct_cost)
    IN  [physician         |-> physician,
         revenue           |-> revenue,
         billed            |-> GroupSum([i \in DOMAIN group |-> group[i].Claim_Amount]),
         direct_costs      |-> direct_cost,
         profit            |-> profit,
         margin            |-> Margin(profit, revenue),
         patients          |-> NUnique([i \in DOMAIN group |-> group[i].Patient_Name]),
         claims            |-> Cardinality({ i \in DOMAIN group : group[i].Claim_Code # None }),
         has_matched_costs |-> Positive(direct_cost)]

\* list.sort(key=..., reverse=True), keys[i] the key of list[i]: the greater
\* keys first, equal keys in the order they had; no key is NaN
SortDescending(list, keys) ==
    LET Ahead(i) == { j \in DOMAIN list :
                        \/ FloatLess(keys[i], keys[j])
                        \/ j < i /\ ~ FloatLess(keys[j], keys[i]) }
    IN  [p \in DOMAIN list |->
            list[CHOOSE i \in DOMAIN list : Cardinality(Ahead(i)) = p - 1]]

\* lines 154-189: physician_data
ByPhysician(claims, rows) ==
    LET index == GroupKeys([i \in DOMAIN claims |-> claims[i].Primary_Physician],
                           PhysicianIndex)
        data  == [k \in DOMAIN index |-> PhysicianRecord(claims, rows, index[k])]
    IN  SortDescending(data, [k \in DOMAIN data |-> data[k].revenue])

\* str(row['Physician']) if pd.notna(row['Physician']) else ''
EmployeeOf(row) == IF row.Physician = PhysicianNaN THEN "" ELSE row.Physician

\* str(row['Date'])[:10] if pd.notna(row['Date']) else ''
DateOf(row) ==
    IF row.Date = None THEN << >>
    ELSE SubSeq(row.Date[1], 1, IF Len(row.Date[1]) < 10 THEN Len(row.Date[1]) ELSE 10)

\* lines 195-200, 207-212: a row of unmatched_data
UnmatchedRow(row, amount) ==
    [patient_name |-> row.Patient_Name, employee |-> EmployeeOf(row),
     amount |-> amount, date |-> DateOf(row)]

\* lines 192-215 without the second loop
UnmatchedListingOfPaidOnly(rows) ==
    LET unmatched == SelectSeq(rows, LAMBDA r : r.Category = "UNMATCHED")
        paid      == SelectSeq(unmatched, LAMBDA r : /\ ~ r.Total_Amount.nan
                                                     /\ Positive(r.Total_Amount))
        data      == [i \in DOMAIN paid |-> UnmatchedRow(paid[i], paid[i].Total_Amount)]
    IN  SortDescending(data, [i \in DOMAIN data |-> data[i].amount])

\* lines 192-215: unmatched_data, the rows with an amount above 0 and then the
\* rows with no amount or amount 0 and a Patient_Name, sorted
UnmatchedListing(rows) ==
    LET unmatched == SelectSeq(rows, LAMBDA r : r.Category = "UNMATCHED")
        paid      == SelectSeq(unmatched, LAMBDA r : /\ ~ r.Total_Amount.nan
                                                     /\ Positive(r.Total_Amount))
        unpaid    == SelectSeq(unmatched, LAMBDA r :
                         /\ r.Total_Amount.nan \/ r.Total_Amount = Zero
                         /\ r.Patient_Name # << >>
                         /\ r.Patient_Name # NaNString)
        data      == [i \in DOMAIN paid |-> UnmatchedRow(paid[i], paid[i].Total_Amount)]
                         \o [i \in DOMAIN unpaid |-> UnmatchedRow(unpaid[i], Zero)]
    IN  SortDescending(data, [i \in DOMAIN data |-> data[i].amount])

\* lines 218-224: overhead_data, the sums by employee with the greatest first
\* (sort_values keeps equal sums of these few groups in the order of the index)
OverheadListing(rows) ==
    LET overhead == SelectSeq(rows, LAMBDA r : r.Category \in { "OVERHEAD", "NO_PATIENT" })
        index    == GroupKeys([i \in DOMAIN overhead |-> overhead[i].Physician],
                              EmployeeIndex)
        data     == [k \in DOMAIN index |->
                        [employee |-> index[k],
                         amount   |-> GroupSum(TotalAmounts(
                                          SelectSeq(overhead,
                                                    LAMBDA r : r.Physician = index[k])))]]
    IN  SortDescending(data, [k \in DOMAIN data |-> data[k].amount])

\* lines 128-232: the report of _build_results, without its timestamp
_build_results(claims, rows) ==
    [overall            |-> Overall(claims, rows),
     by_physician       |-> ByPhysician(claims, rows),
     unmatched_patients |-> UnmatchedListing(rows),
     overhead           |-> OverheadListing(rows)]

\* lines 99-126: analyze() on loaded data
Analyze ==
    /\ claims_df # None
    /\ report = None
    /\ costs_df' = Some(Categorize(costs_df[1], _build_physician_lookup(claims_df[1])))
    /\ report' = Some(_build_results(claims_df[1], costs_df'[1]))
    /\ UNCHANGED << patients, stats, import_batch, call, ret, concVars, visitVars,
                    claims_df, apiVars, pipeVars, normalized >>

\* a ProfitabilityAnalyzer just constructed
InitAnalyze == Init

NextAnalyze ==
    \/ \E claims \in ClaimTables, costs \in CostTables : LoadData(claims, costs)
    \/ Analyze

SpecAnalyze == InitAnalyze /\ [][NextAnalyze]_vars

\* C10: in every report of analyze, matched_costs + unmatched_costs +
\* overhead_costs (the OVERHEAD and NO_PATIENT rows) equals total_costs exactly.
C10_PartitionSumsToTotal ==
    report # None =>
        FloatAdd(FloatAdd(report[1].overall.matched_costs,
                          report[1].overall.unmatched_costs),
                 report[1].overall.overhead_costs)
            = report[1].overall.total_costs

(***************************************************************************)
(* The categorization of single cost rows (SpecCategorize): the same       *)
(* load_data and analyze, on claim lists and cost rows chosen for the      *)
(* rules of _categorize_cost_record.                                       *)
(***************************************************************************)

\* ".": a Patient_Name cell that holds punctuation only
NameDot == << "." >>

\* "see ": a note with a blank after it
NameSeeSpace == << "s", "e", "e", " " >>

\* "Payne, Al": a patient whose name contains the keyword 'pay'
NamePayneAl == << "P", "a", "y", "n", "e", ",", " ", "A", "l" >>

\* "Total October Payroll"
NameTotalOctoberPayroll == << "T", "o", "t", "a", "l", " ", "O", "c", "t", "o", "b", "e", "r", " ", "P", "a", "y", "r", "o", "l", "l" >>

\* "Doe, Jana": as close to "Doe, Jan" as "Doe, Jane" is
NameDoeJana == << "D", "o", "e", ",", " ", "J", "a", "n", "a" >>

\* "Doe Janqrstu": its NameKey has ratio 14/20 = 0.7 with 'doe jane'
NameDoeJanqrstu == << "D", "o", "e", " ", "J", "a", "n", "q", "r", "s", "t", "u" >>

\* a claim row with this patient and physician
ClaimOf(name, physician) ==
    [Patient_Name |-> name, Primary_Physician |-> physician,
     Paid_Amount |-> Amount110, Claim_Amount |-> Amount110, Claim_Code |-> ClaimCode]

\* the claim lists of the categorization runs
LedgerClaimTables ==
    { << >>,
      << ClaimOf(NameDoeJane, PhysicianSmith) >>,
      << ClaimOf(NameDoeJane, PhysicianSmith), ClaimOf(NameJaneDoe, PhysicianJones) >>,
      << ClaimOf(NameDoeJane, PhysicianNaN), ClaimOf(NameJaneDoe, PhysicianJones) >>,
      << ClaimOf(NameDoeJane, PhysicianSmith), ClaimOf(NameDoeJana, PhysicianJones) >>,
      << ClaimOf(NamePayneAl, PhysicianSmith) >> }

\* the Patient_Name cells of the categorization runs
LedgerNames ==
    { NameJaneDoe, NameDoeJan, NameLeeAnn, NameOffice, NaNString, NameDot,
      NameSeeSpace, NamePayneAl, NameTotalOctoberPayroll, NameDoeJanqrstu }

\* the cost ledgers of the categorization runs: one row each
LedgerCostTables ==
    { << [Patient_Name |-> name, Physician |-> EmployeeNurseX,
          Total_Amount |-> Amount010, Date |-> Some(DateJan01)] >> : name \in LedgerNames }

\* a ProfitabilityAnalyzer just constructed
InitCategorize == Init

NextCategorize ==
    \/ \E claims \in LedgerClaimTables, costs \in LedgerCostTables : LoadData(claims, costs)
    \/ Analyze

SpecCategorize == InitCategorize /\ [][NextCategorize]_vars

\* the analyzed cost rows of the report
AnalyzedRows == IF report = None THEN << >> ELSE costs_df[1]

\* the lookup the report was built with
ReportLookup == _build_physician_lookup(claims_df[1])

\* the name holds one of the overhead keywords, in any letter case
HasOverheadKeyword(name) ==
    \E w \in DOMAIN overhead_keywords : Contains(Lower(name), overhead_keywords[w])

\* C11: a cost row whose raw patient name contains an overhead keyword, in any
\* letter case, is categorized OVERHEAD with no matched physician, whether or
\* not its NameKey is in the lookup or close to a key.
C11_KeywordIsOverhead ==
    \A i \in DOMAIN AnalyzedRows :
        HasOverheadKeyword(AnalyzedRows[i].Patient_Name)
        => /\ AnalyzedRows[i].Category = "OVERHEAD"
           /\ AnalyzedRows[i].Matched_Physician = None

\* the fraction x is less than the fraction y
FractionLess(x, y) == x.num * y.den < y.num * x.den

\* the similarity of a NameKey and key k of the lookup
KeyRatio(norm, lookup, k) == Ratio(norm, lookup[k].norm_name)

\* key k is the first key of the lookup that reaches the greatest similarity
FirstGreatest(norm, lookup, k) ==
    /\ \A j \in DOMAIN lookup :
           ~FractionLess(KeyRatio(norm, lookup, k), KeyRatio(norm, lookup, j))
    /\ \A j \in 1..(k - 1) :
           FractionLess(KeyRatio(norm, lookup, j), KeyRatio(norm, lookup, k))

\* the row is left to the fuzzy rule: rules 1 and 2 did not take it and its
\* NameKey is no key of the lookup
LeftToFuzzy(row, lookup) ==
    /\ row.Category \notin { "NO_PATIENT", "OVERHEAD" }
    /\ \A k \in DOMAIN lookup : lookup[k].norm_name # normalize_name(row.Patient_Name)

\* C12: a cost row left to the fuzzy rule is MATCHED exactly when the greatest
\* similarity of its NameKey to a lookup key is above 0.7, with the physician
\* of the first key that reaches it; otherwise it is UNMATCHED.
C12_FuzzyAboveCutoffMatches ==
    \A i \in DOMAIN AnalyzedRows :
        LET row  == AnalyzedRows[i]
            norm == normalize_name(row.Patient_Name)
        IN  LeftToFuzzy(row, ReportLookup)
            => IF \E k \in DOMAIN ReportLookup :
                      FractionLess([num |-> 7, den |-> 10], KeyRatio(norm, ReportLookup, k))
               THEN /\ row.Category = "MATCHED"
                    /\ \E k \in DOMAIN ReportLookup :
                           /\ FirstGreatest(norm, ReportLookup, k)
                           /\ row.Matched_Physician = Some(ReportLookup[k].physician)
               ELSE /\ row.Category = "UNMATCHED"
                    /\ row.Matched_Physician = None

\* a row was matched by the fuzzy rule to the first of two keys that are
\* equally close and carry different physicians
C12_Witness ==
    \E i \in DOMAIN AnalyzedRows :
        /\ LeftToFuzzy(AnalyzedRows[i], ReportLookup)
        /\ AnalyzedRows[i].Category = "MATCHED"
        /\ \E j, k \in DOMAIN ReportLookup :
               /\ j < k
               /\ FirstGreatest(normalize_name(AnalyzedRows[i].Patient_Name), ReportLookup, j)
               /\ KeyRatio(normalize_name(AnalyzedRows[i].Patient_Name), ReportLookup, j)
                      = KeyRatio(normalize_name(AnalyzedRows[i].Patient_Name), ReportLookup, k)
               /\ ReportLookup[j].physician # ReportLookup[k].physician

\* C13: a cost row whose raw patient name normalizes to the empty NameKey is
\* categorized NO_PATIENT, before any other rule.
C13_EmptyNameKeyIsNoPatient ==
    \A i \in DOMAIN AnalyzedRows :
        normalize_name(AnalyzedRows[i].Patient_Name) = << >>
        => AnalyzedRows[i].Category = "NO_PATIENT"

\* C14: the lookup maps every NameKey to the physician of the earliest claim
\* row that has this NameKey.
C14_LookupKeepsFirstSeen ==
    report # None =>
        \A k \in DOMAIN ReportLookup :
            ReportLookup[k].physician
                = FirstClaim(claims_df[1], ReportLookup[k].norm_name).Primary_Physician

(***************************************************************************)
(* The figures of the report (SpecReport): the same load_data and analyze, *)
(* on claim lists and cost ledgers chosen for the sums, the margins and    *)
(* the listings of _build_results.                                         *)
(***************************************************************************)

\* 1000.0 = 0x1.f4p+9, 1200.0 = 0x1.2cp+10, 300.0 = 0x1.2cp+8
Amount1000 == Double(<< 15, 4 >>, 9)
Amount1200 == Double(<< 2, 12 >>, 10)
Amount300 == Double(<< 2, 12 >>, 8)

\* a claim row
Claim(name, physician, paid, billed, code) ==
    [Patient_Name |-> name, Primary_Physician |-> physician,
     Paid_Amount |-> paid, Claim_Amount |-> billed, Claim_Code |-> code]

\* the claim list of the end-to-end scenario: one claim of 'Doe, Jane' with
\* 'Dr. A', paid 1000 of 1200, its Claim Code cell empty
ScenarioClaims == << Claim(NameDoeJane, PhysicianA, Amount1000, Amount1200, None) >>

\* the claim lists of the report runs: none; the scenario; two physicians,
\* the second of the index with more revenue; two physicians with the same
\* revenue; nothing paid; a paid amount taken back; a claim without
\* physician; two claims of one patient
ReportClaimTables ==
    { << >>,
      ScenarioClaims,
      << Claim(NameDoeJane, PhysicianSmith, Amount110, Amount110, ClaimCode),
         Claim(NameLeeAnn, PhysicianJones, Amount010, Amount110, ClaimCode) >>,
      << Claim(NameDoeJane, PhysicianSmith, Amount110, Amount110, ClaimCode),
         Claim(NameLeeAnn, PhysicianJones, Amount110, Amount110, ClaimCode) >>,
      << Claim(NameDoeJane, PhysicianSmith, Zero, Amount110, ClaimCode) >>,
      << Claim(NameDoeJane, PhysicianSmith, Negate(Amount010), Amount110, ClaimCode) >>,
      << Claim(NameDoeJane, PhysicianNaN, Amount110, Amount110, ClaimCode),
         Claim(NameLeeAnn, PhysicianJones, Amount010, Amount010, ClaimCode) >>,
      << Claim(NameDoeJane, PhysicianSmith, Amount110, Amount110, ClaimCode),
         Claim(NameDoeJane, PhysicianSmith, Amount010, Amount010, None) >> }

\* a row of the cost ledger
Cost(name, employee, amount) ==
    [Patient_Name |-> name, Physician |-> employee, Total_Amount |-> amount,
     Date |-> Some(DateJan01)]

\* the rows of the cost ledgers of the report runs: the amounts are positive,
\* 0, missing and negative
ReportCostRows ==
    { Cost(NameJaneDoe, EmployeeNurseX, Amount300),
      Cost(NameJaneDoe, EmployeeNurseY, Amount010),
      Cost(NameLeeAnn, EmployeeNurseX, Amount010),
      Cost(NameLeeAnn, EmployeeNurseY, Amount110),
      Cost(NameLeeAnn, EmployeeNurseX, Zero),
      Cost(NameLeeAnn, EmployeeNurseX, NaN),
      Cost(NameLeeAnn, EmployeeNurseX, Negate(Amount010)),
      Cost(NameOffice, EmployeeNurseY, Amount010) }

\* the most rows a cost ledger of the report runs has
MaxReportRows == 2

\* the cost ledgers of the report runs
ReportCostTables == UNION { [1..n -> ReportCostRows] : n \in 1..MaxReportRows }

\* a ProfitabilityAnalyzer just constructed
InitReport == Init

NextReport ==
    \/ \E claims \in ReportClaimTables, costs \in ReportCostTables : LoadData(claims, costs)
    \/ Analyze

SpecReport == InitReport /\ [][NextReport]_vars

\* C15: in every report gross_profit is total_revenue - total_costs, and
\* profit_margin is a number: 0 when total_revenue is 0, and
\* gross_profit / total_revenue * 100 rounded to one decimal when
\* total_revenue > 0.
C15_GrossProfitAndMargin ==
    report # None =>
        LET o == report[1].overall
        IN  /\ o.gross_profit = FloatSub(o.total_revenue, o.total_costs)
            /\ ~ o.profit_margin.nan
            /\ o.total_revenue = Zero => o.profit_margin = Zero
            /\ Positive(o.total_revenue)
               => o.profit_margin
                      = RoundOneDecimal(FloatTimes100(FloatDiv(o.gross_profit,
                                                               o.total_revenue)))

\* a report of revenue and costs whose margin the rounding changed
C15_Witness ==
    /\ report # None
    /\ Positive(report[1].overall.total_revenue)
    /\ Positive(report[1].overall.total_costs)
    /\ report[1].overall.profit_margin
           # FloatTimes100(FloatDiv(report[1].overall.gross_profit,
                                    report[1].overall.total_revenue))

\* the physicians that appear in the claim list
ClaimPhysicians ==
    { claims_df[1][i].Primary_Physician : i \in DOMAIN claims_df[1] } \ { PhysicianNaN }

\* the paid amounts of the claims of a physician, in row order
PaidTo(physician) ==
    TotalAmounts(SelectSeq([i \in DOMAIN claims_df[1] |->
                               [Primary_Physician |-> claims_df[1][i].Primary_Physician,
                                Total_Amount |-> claims_df[1][i].Paid_Amount]],
                           LAMBDA c : c.Primary_Physician = physician))

\* the amounts of the MATCHED cost rows whose matched physician is this one
MatchedTo(physician) ==
    TotalAmounts(SelectSeq(costs_df[1], LAMBDA r : /\ r.Category = "MATCHED"
                                                   /\ r.Matched_Physician = Some(physician)))

\* profit / revenue * 100, 0 unless revenue > 0
UnroundedMargin(profit, revenue) ==
    IF Positive(revenue) THEN FloatTimes100(FloatDiv(profit, revenue)) ELSE Zero

\* by_physician holds one record for each physician of the claims, with the
\* sums of the physician, in the order of descending revenue
ByPhysicianSums ==
    LET data == report[1].by_physician
    IN  /\ { data[p].physician : p \in DOMAIN data } = ClaimPhysicians
        /\ Len(data) = Cardinality(ClaimPhysicians)
        /\ \A p \in DOMAIN data :
               /\ data[p].revenue = GroupSum(PaidTo(data[p].physician))
               /\ data[p].direct_costs = GroupSum(MatchedTo(data[p].physician))
               /\ data[p].profit = FloatSub(data[p].revenue, data[p].direct_costs)
        /\ \A p, q \in DOMAIN data :
               p < q => ~ FloatLess(data[p].revenue, data[q].revenue)

\* C16 as stated: by_physician holds one record per physician of the claims
\* with revenue, direct_costs, profit = revenue - direct_costs and
\* margin = profit / revenue * 100 (0 unless revenue > 0), ordered by
\* descending revenue.
C16_ByPhysicianRecords ==
    report # None =>
        /\ ByPhysicianSums
        /\ \A p \in DOMAIN report[1].by_physician :
               report[1].by_physician[p].margin
                   = UnroundedMargin(report[1].by_physician[p].profit,
                                     report[1].by_physician[p].revenue)

\* C16 amended: as above, with margin = profit / revenue * 100 rounded to one
\* decimal (0 unless revenue > 0).
C16_ByPhysicianRecordsRounded ==
    report # None =>
        /\ ByPhysicianSums
        /\ \A p \in DOMAIN report[1].by_physician :
               report[1].by_physician[p].margin
                   = RoundOneDecimal(UnroundedMargin(report[1].by_physician[p].profit,
                                                     report[1].by_physician[p].revenue))

\* a report of two physicians: the one with more revenue comes first though
\* it is second in the index, costs were matched to it, and its margin is
\* rounded
C16_Witness ==
    /\ report # None
    /\ Len(report[1].by_physician) = 2
    /\ report[1].by_physician[1].physician = PhysicianSmith
    /\ FloatLess(report[1].by_physician[2].revenue, report[1].by_physician[1].revenue)
    /\ Positive(report[1].by_physician[1].direct_costs)
    /\ report[1].by_physician[1].margin
           # UnroundedMargin(report[1].by_physician[1].profit,
                             report[1].by_physician[1].revenue)

\* the analyzed cost rows that are categorized UNMATCHED
UnmatchedEntries == { i \in DOMAIN AnalyzedRows : AnalyzedRows[i].Category = "UNMATCHED" }

\* C17: every cost entry categorized UNMATCHED has its row in the
\* unmatched_patients listing, whatever its amount: an entry that is counted
\* in unmatched_costs is never left out of the listing.
C17_UnmatchedAlwaysListed ==
    report # None =>
        /\ Len(report[1].unmatched_patients) = Cardinality(UnmatchedEntries)
        /\ \A i \in UnmatchedEntries :
               \E p \in DOMAIN report[1].unmatched_patients :
                   report[1].unmatched_patients[p].patient_name
                       = AnalyzedRows[i].Patient_Name

\* the name and the amount of the listing row of an UNMATCHED entry: its own
\* amount when that is above 0, and 0 when it is 0 or missing
ListedAs(i) ==
    [patient_name |-> AnalyzedRows[i].Patient_Name,
     amount       |-> IF AnalyzedRows[i].Total_Amount.nan THEN Zero
                      ELSE AnalyzedRows[i].Total_Amount]

\* the UNMATCHED entries the listing is to show: the amount above 0, or the
\* amount 0 or missing and the raw name not empty
ToBeListed ==
    { i \in UnmatchedEntries :
        \/ Positive(AnalyzedRows[i].Total_Amount)
        \/ /\ AnalyzedRows[i].Total_Amount.nan \/ AnalyzedRows[i].Total_Amount = Zero
           /\ AnalyzedRows[i].Patient_Name # << >> }

\* C18: the unmatched_patients listing holds exactly one row, with the
\* entry's amount, per UNMATCHED entry with amount > 0 and one row with
\* amount 0 per UNMATCHED entry with the amount 0 or missing and a raw name,
\* and its rows are in the order of descending amount.
C18_UnmatchedListing ==
    report # None =>
        LET listing == report[1].unmatched_patients
            Shown(row) == [patient_name |-> row.patient_name, amount |-> row.amount]
        IN  /\ Len(listing) = Cardinality(ToBeListed)
            /\ \A i \in ToBeListed :
                   Cardinality({ p \in DOMAIN listing : Shown(listing[p]) = ListedAs(i) })
                       = Cardinality({ j \in ToBeListed : ListedAs(j) = ListedAs(i) })
            /\ \A p, q \in DOMAIN listing :
                   p < q => ~ FloatLess(listing[p].amount, listing[q].amount)

\* a listing of an entry without amount and, read after it, an entry with an
\* amount above 0: the row of the second comes first
C18_Witness ==
    /\ report # None
    /\ Len(report[1].unmatched_patients) = 2
    /\ Positive(report[1].unmatched_patients[1].amount)
    /\ report[1].unmatched_patients[2].amount = Zero
    /\ Len(AnalyzedRows) = 2
    /\ AnalyzedRows[1].Total_Amount.nan
    /\ AnalyzedRows[1].Category = "UNMATCHED"

\* 700.0 = 0x1.5ep+9 and 70.0 = 0x1.18p+6
Amount700 == Double(<< 5, 14 >>, 9)
Amount70 == Double(<< 1, 8 >>, 6)

\* analyze has run on the data of the end-to-end scenario: the claim of
\* ScenarioClaims and the cost row of 'Jane Doe' by 'Nurse X' with amount 300
ScenarioAnalyzed ==
    /\ report # None
    /\ claims_df[1] = ScenarioClaims
    /\ Len(costs_df[1]) = 1
    /\ costs_df[1][1].Patient_Name = NameJaneDoe
    /\ costs_df[1][1].Physician = EmployeeNurseX
    /\ costs_df[1][1].Total_Amount = Amount300

\* the figures the scenario expects, but for the number of claims: the cost
\* row MATCHED to 'Dr. A', the overall figures, one record of 'Dr. A' with one
\* patient, and both listings empty
ScenarioFigures ==
    /\ costs_df[1][1].Category = "MATCHED"
    /\ costs_df[1][1].Matched_Physician = Some(PhysicianA)
    /\ report[1].overall.total_revenue = Amount1000
    /\ report[1].overall.matched_costs = Amount300
    /\ report[1].overall.gross_profit = Amount700
    /\ report[1].overall.profit_margin = Amount70
    /\ Len(report[1].by_physician) = 1
    /\ report[1].by_physician[1].physician = PhysicianA
    /\ report[1].by_physician[1].revenue = Amount1000
    /\ report[1].by_physician[1].direct_costs = Amount300
    /\ report[1].by_physician[1].profit = Amount700
    /\ report[1].by_physician[1].margin = Amount70
    /\ report[1].by_physician[1].patients = 1
    /\ report[1].unmatched_patients = << >>
    /\ report[1].overhead = << >>

\* C19: on the data of the end-to-end scenario analyze matches the cost row
\* to 'Dr. A' and reports total_revenue 1000, matched_costs 300, gross_profit
\* 700, profit_margin 70.0, one by_physician record (Dr. A, 1000, 300, 700,
\* 70.0, patients 1, claims 1) and empty unmatched_patients and overhead.
C19_EndToEndScenario ==
    ScenarioAnalyzed =>
        /\ ScenarioFigures
        /\ report[1].by_physician[1].claims = 1

(***************************************************************************)
(* The /profitability endpoints of api_server.py (SpecApi).  Every request *)
(* builds a ProfitabilityAnalyzer of its own, which reads the two source   *)
(* files; files is what they hold, None when a file is missing or cannot   *)
(* be read.  A dict is a function of its keys.  The cost ledgers of these  *)
(* runs have one row.                                                      *)
(***************************************************************************)

\* the source files of the endpoint runs
SourceFiles ==
    { None } \cup
    { Some([claims |-> claims, costs |-> << row >>]) :
          claims \in ReportClaimTables, row \in ReportCostRows }

\* {} and []
EmptyDict == << >>
EmptyList == << >>

\* results.get(key, default)
Get(results, key, default) == IF key \in DOMAIN results THEN results[key] ELSE default

\* raise HTTPException(status_code=500, ...)
HTTPException(endpoint) == [endpoint |-> endpoint, status_code |-> 500, body |-> "detail"]

\* a returned value is answered with status 200
Returned(endpoint, body) == [endpoint |-> endpoint, status_code |-> 200, body |-> body]

\* analyzer = ProfitabilityAnalyzer(); results = analyzer.analyze(), with
\* profitability_analysis.py lines 99-126: the analyzer of the request loads
\* the files, and analyze returns the error dict when load_data fails;
\* report holds the results
NewAnalyzerAnalyze ==
    /\ claims_df' = IF files = None THEN None ELSE Some(files[1].claims)
    /\ costs_df' = IF files = None THEN None
                   ELSE Some(Categorize(CleanCosts(files[1].costs),
                                        _build_physician_lookup(files[1].claims)))
    /\ report' = IF files = None THEN Some([error |-> "Failed to load data"])
                 ELSE Some(_build_results(claims_df'[1], costs_df'[1]))
    /\ UNCHANGED << patients, stats, import_batch, call, ret, concVars, visitVars,
                    files, pipeVars, normalized >>

\* api_server.py lines 383-395: GET /profitability/analysis on the results of
\* analyze(); the HTTPException of line 391 is caught at line 394 and raised
\* again with status 500
get_profitability_analysis(results) ==
    IF "error" \in DOMAIN results
    THEN HTTPException("/profitability/analysis")
    ELSE Returned("/profitability/analysis", results)

\* lines 398-406: GET /profitability/overall
get_profitability_overall(results) ==
    Returned("/profitability/overall", Get(results, "overall", EmptyDict))

\* lines 409-417: GET /profitability/by-physician
get_profitability_by_physician(results) ==
    Returned("/profitability/by-physician", Get(results, "by_physician", EmptyList))

\* lines 420-428: GET /profitability/unmatched
get_unmatched_patients(results) ==
    Returned("/profitability/unmatched", Get(results, "unmatched_patients", EmptyList))

\* lines 431-439: GET /profitability/overhead
get_overhead_costs(results) ==
    Returned("/profitability/overhead", Get(results, "overhead", EmptyList))

\* api_server.py lines 442-455 and profitability_analysis.py lines 234-305:
\* GET /profitability/export; export_to_excel reads results['overall'], which
\* raises KeyError on the dict of a failed load, and the endpoint answers 500
export_profitability_excel(results) ==
    IF "overall" \in DOMAIN results
    THEN Returned("/profitability/export", "xlsx")
    ELSE HTTPException("/profitability/export")

\* the routes of lines 383-455
Endpoints ==
    { "/profitability/analysis", "/profitability/overall", "/profitability/by-physician",
      "/profitability/unmatched", "/profitability/overhead", "/profitability/export" }

\* the handler the route decorator binds to the path
Handle(endpoint, results) ==
    CASE endpoint = "/profitability/analysis"     -> get_profitability_analysis(results)
      [] endpoint = "/profitability/overall"      -> get_profitability_overall(results)
      [] endpoint = "/profitability/by-physician" -> get_profitability_by_physician(results)
      [] endpoint = "/profitability/unmatched"    -> get_unmatched_patients(results)
      [] endpoint = "/profitability/overhead"     -> get_overhead_costs(results)
      [] endpoint = "/profitability/export"       -> export_profitability_excel(results)

\* one GET request: the handler builds its analyzer, runs analyze() and answers
Request(endpoint) ==
    /\ NewAnalyzerAnalyze
    /\ response' = Handle(endpoint, report'[1])

\* the server before a request, over any of the source files
InitApi ==
    /\ patients = {}
    /\ stats = ZeroStats
    /\ import_batch = FirstBatch
    /\ call = << >>
    /\ ret = None
    /\ ConcIdle
    /\ VisitsIdle
    /\ AnalyzerIdle
    /\ files \in SourceFiles
    /\ response = None
    /\ PipelineIdle
    /\ normalized = None

NextApi == \E endpoint \in Endpoints : Request(endpoint)

SpecApi == InitApi /\ [][NextApi]_vars

\* the reconciliation cannot be made: a source file cannot be loaded, or the
\* claim list is empty
PathFails == files = None \/ files[1].claims = << >>

\* C20: when a source file cannot be loaded or a dataset is empty, every
\* /profitability endpoint answers with an error: no request is answered
\* with status 200 and an empty, partial or all-zero report.
C20_FailureIsAnError ==
    response # None /\ PathFails => response.status_code = 500

(***************************************************************************)
(* process_directory, process_file, store_visits and store_claims          *)
(* (SpecPipeline).  One pipeline instance processes the files of a         *)
(* directory one after the other.  Every parser catches its own            *)
(* exceptions and returns what it has; store_visits and store_claims       *)
(* catch theirs.  As in store_visits, the outer connection of store_claims *)
(* commits once after the loop, and find_or_create_patient opens its own   *)
(* connection for every record.                                            *)
(***************************************************************************)

\* a visit dict as the parsers build it
Visit(name, date, code) ==
    [patient_id |-> None, patient_name |-> name, visit_date |-> date,
     service_code |-> code]

\* a visit dict without the key 'visit_date'
VisitNoDate(name, code) ==
    [patient_id |-> None, patient_name |-> name, service_code |-> code]

\* a claim dict as the parsers build it
ClaimDict(name, number) ==
    [patient_id |-> None, patient_name |-> name, claim_number |-> number]

\* a file of the directory: what kind process_file takes it for, whether it
\* can be opened and parsed, and the records a parse yields
File(kind, readable, visit_list, claim_list) ==
    [kind |-> kind, readable |-> readable, visits |-> visit_list, claims |-> claim_list]

\* the files a directory may hold
InputFiles ==
    { File("patient_visits.pdf", TRUE,
           << Visit(NameDoeJane, "2024-01-05", Some("SN")),
              VisitNoDate(NameLeeAnn, Some("SN")),
              Visit(NameLeeAnn, "2024-01-05", Some("SN")) >>, << >>),
      File("patient_visits.pdf", TRUE,
           << VisitNoDate(NameLeeAnn, Some("SN")),
              Visit(NameLeeAnn, "2024-01-05", Some("SN")),
              Visit(NameLeeAnn, "2024-01-05", Some("SN")) >>, << >>),
      File("patient_visits.pdf", FALSE, << >>, << >>),
      File("ar_detail.pdf", TRUE, << >>,
           << ClaimDict(NameDoeJane, "1001"), ClaimDict(NameLeeAnn, "1002"),
              ClaimDict(NameDoeJane, "1001") >>),
      File("xlsx", TRUE,
           << Visit(NameDoeJane, "2024-01-05", Some("SN")) >>,
           << ClaimDict(NameLeeAnn, "1002") >>),
      File("xlsx", FALSE, << >>, << >>) }

\* the files of one directory
MaxFiles == 2

\* the directories process_directory is run on
Directories ==
    UNION { [1..n -> InputFiles] : n \in 1..MaxFiles }

\* lines 301-326, 464-481, 526-557: what the parser of the file's kind
\* returns.  An exception of the parse is caught inside it: the PDF parsers
\* then return the empty list, process_excel_file the empty dict (None is a
\* key that is absent, or a parser that is not called).
Parsed(file) ==
    CASE file.kind = "patient_visits.pdf" ->
             [visits |-> Some(IF file.readable THEN file.visits ELSE << >>),
              claims |-> None]
      [] file.kind = "ar_detail.pdf" ->
             [visits |-> None,
              claims |-> Some(IF file.readable THEN file.claims ELSE << >>)]
      [] file.kind = "xlsx" ->
             IF file.readable
             THEN [visits |-> Some(file.visits), claims |-> Some(file.claims)]
             ELSE [visits |-> None, claims |-> None]

\* lines 116-140: the import_log row start_import_log inserts
StartedEntry(file, batch) ==
    [file          |-> file,
     import_batch  |-> batch,
     records_read  |-> 0, records_imported |-> 0, records_failed |-> 0,
     import_status |-> "In Progress",
     error_message |-> None]

\* lines 142-176: the row after update_import_log(import_id, status, error_message)
UpdatedEntry(entry, counters, status, error_message) ==
    [entry EXCEPT !.records_read     = counters.records_read,
                  !.records_imported = counters.records_imported,
                  !.records_failed   = counters.records_failed,
                  !.import_status    = status,
                  !.error_message    = error_message]

\* lines 774-795: process_directory(directory_path) on a directory that exists
process_directory(listing) ==
    /\ run.pc = "idle"
    /\ directory' = listing
    /\ run' = [pc |-> "file", next |-> 1]
    /\ UNCHANGED << patients, stats, import_batch, call, ret, concVars, visitVars,
                    analysisVars, apiVars, import_log, claims_table, normalized >>

\* lines 788-789, 797-805 and the parser calls of lines 812, 816, 824:
\* process_file starts the import log and parses the file
ProcessFileStart ==
    /\ run.pc = "file"
    /\ run.next <= Len(directory)
    /\ import_log' = Append(import_log, StartedEntry(directory[run.next], import_batch))
    /\ run' = [pc |-> "visits", next |-> run.next,
               import_id |-> Len(import_log) + 1,
               excel_data |-> Parsed(directory[run.next])]
    /\ UNCHANGED << patients, stats, import_batch, call, ret, concVars, visitVars,
                    analysisVars, apiVars, directory, claims_table, normalized >>

\* mutant of RecordsRead: the file is counted as one record
RecordsReadOnePerFile(counters, records) ==
    [counters EXCEPT !.records_read = @ + 1]

\* lines 813, 817, 828, 833: self.stats['records_read'] += len(records)
RecordsRead(counters, records) ==
    [counters EXCEPT !.records_read = @ + Len(records)]

\* lines 812-814, 826-829 and 602-603: the visits of the file are counted as
\* read and handed to store_visits, which returns at once on an empty list
ProcessFileVisits ==
    /\ run.pc = "visits"
    /\ run' = [run EXCEPT !.pc = "claims"]
    /\ IF run.excel_data.visits = None
       THEN UNCHANGED << stats, store >>
       ELSE /\ stats' = RecordsRead(stats, run.excel_data.visits[1])
            /\ store' = IF run.excel_data.visits[1] = << >> THEN store
                        ELSE [pc |-> "loop", visits |-> run.excel_data.visits[1],
                              pos |-> 1, txn |-> FALSE, branch |-> "none"]
    /\ UNCHANGED << patients, import_batch, call, ret, concVars, visits, log,
                    analysisVars, apiVars, directory, import_log, claims_table, normalized >>

\* lines 816-818, 831-834 and 669-670: the claims of the file are counted as
\* read and handed to store_claims, once store_visits has returned
ProcessFileClaims ==
    /\ run.pc = "claims"
    /\ store.pc = "idle"
    /\ run' = [run EXCEPT !.pc = "end"]
    /\ IF run.excel_data.claims = None
       THEN UNCHANGED << stats, store >>
       ELSE /\ stats' = RecordsRead(stats, run.excel_data.claims[1])
            /\ store' = IF run.excel_data.claims[1] = << >> THEN store
                        ELSE [pc |-> "claims", claims |-> run.excel_data.claims[1],
                              pos |-> 1, txn |-> FALSE, branch |-> "none"]
    /\ UNCHANGED << patients, import_batch, call, ret, concVars, visits, log,
                    analysisVars, apiVars, directory, import_log, claims_table, normalized >>

\* lines 692-707: the row INSERTed for a claim
ClaimRow(patient_id, claim, batch) ==
    [claim_number |-> claim.claim_number,
     patient_id   |-> patient_id,
     import_batch |-> batch]

\* the table without the rows of a claim number
WithoutNumber(tbl, number) ==
    SelectSeq(tbl, LAMBDA r : r.claim_number # number)

\* lines 692-707: INSERT OR REPLACE INTO claims.  The schema of the table is
\* not part of the source: the row replaces the rows with its claim_number
\* when the column is declared unique, and is added to them when it is not.
InsertOrReplaceClaim(tbl, row) ==
    { Append(tbl, row), Append(WithoutNumber(tbl, row.claim_number), row) }

\* lines 678-714: one pass of the loop of store_claims
StoreClaim ==
    /\ store.pc = "claims"
    /\ store.pos <= Len(store.claims)
    /\ LET claim == store.claims[store.pos]
       IN  \E o \in find_or_create_patient(patients, claim.patient_id,
                                           claim.patient_name, import_batch) :
               LET locked     == o.created = 1 /\ store.txn
                   patient_id == IF locked THEN None ELSE o.ret
                   unresolved == ~Truthy(patient_id)
               IN  /\ patients' = IF locked THEN patients ELSE o.patients
                   /\ stats' =
                        [stats EXCEPT
                           !.patients_matched = @ + (IF locked THEN 0 ELSE o.matched),
                           !.patients_created = @ + (IF locked THEN 0 ELSE o.created),
                           !.records_failed   = @ + (IF unresolved THEN 1 ELSE 0),
                           !.records_imported = @ + (IF unresolved THEN 0 ELSE 1)]
                   /\ IF unresolved
                      THEN claims_table' = claims_table
                      ELSE claims_table' \in
                               InsertOrReplaceClaim(claims_table,
                                   ClaimRow(patient_id[1], claim, import_batch))
                   /\ store' = [store EXCEPT
                                  !.pos = @ + 1,
                                  !.txn = @ \/ ~unresolved,
                                  !.branch = IF unresolved THEN "unresolved"
                                             ELSE "inserted"]
    /\ UNCHANGED << import_batch, call, ret, concVars, visits, log, analysisVars,
                    apiVars, directory, run, import_log, normalized >>

\* line 716: conn.commit() after the loop, and the return
StoreClaimsCommit ==
    /\ store.pc = "claims"
    /\ store.pos > Len(store.claims)
    /\ store' = IdleStore
    /\ UNCHANGED << patients, stats, import_batch, call, ret, concVars, visits, log,
                    analysisVars, apiVars, pipeVars, normalized >>

\* lines 836-837: the file is counted and its import_log row updated
ProcessFileEnd ==
    /\ run.pc = "end"
    /\ store.pc = "idle"
    /\ stats' = [stats EXCEPT !.files_processed = @ + 1]
    /\ import_log' = [import_log EXCEPT ![run.import_id] =
                          UpdatedEntry(@, stats', "Completed", None)]
    /\ run' = [pc |-> "file", next |-> run.next + 1]
    /\ UNCHANGED << patients, import_batch, call, ret, concVars, visitVars,
                    analysisVars, apiVars, directory, claims_table, normalized >>

\* an empty warehouse and a fresh pipeline instance
InitPipeline == Init

NextPipeline ==
    \/ \E listing \in Directories : process_directory(listing)
    \/ ProcessFileStart
    \/ ProcessFileVisits
    \/ StoreVisit
    \/ StoreVisitsCommit
    \/ ProcessFileClaims
    \/ StoreClaim
    \/ StoreClaimsCommit
    \/ ProcessFileEnd

SpecPipeline == InitPipeline /\ [][NextPipeline]_vars

\* process_directory has gone through the directory
DirectoryDone == run.pc = "file" /\ run.next > Len(directory)

(***************************************************************************)
(* Claims about the pipeline, checked under SpecPipeline                   *)
(***************************************************************************)

\* the entry of a file whose ingestion failed: it could not be opened or parsed
FailedFile(entry) == ~entry.file.readable

\* C21: the import-log entry of a file whose ingestion failed (missing or
\* unparsable) ends with status Failed and a failure reason, never Completed,
\* and process_directory goes on to every remaining file of the batch.
C21_FailedFileIsLoggedFailed ==
    /\ \A i \in DOMAIN import_log :
           (FailedFile(import_log[i]) /\ import_log[i].import_status # "In Progress")
           => (/\ import_log[i].import_status = "Failed"
               /\ import_log[i].error_message # None)
    /\ DirectoryDone => Len(import_log) = Len(directory)

\* the step is one pass of the loop of store_visits or of store_claims
IsStorePass ==
    /\ store.pc \in { "loop", "claims" }
    /\ store'.pc = store.pc
    /\ store'.pos = store.pos + 1

\* the record of the pass
PassRecord == IF store.pc = "loop" THEN store.visits[store.pos] ELSE store.claims[store.pos]

\* a record that has what the loop body reads: a visit its date
ValidRecord(record) == store.pc = "loop" => "visit_date" \in DOMAIN record

\* the branches that are a failure of the record
FailureBranches == { "unresolved", "raised" }

\* C22: in store_visits and store_claims a failure on one record adds exactly
\* one to records_failed, stores no visit and no claim for it, and the loop
\* goes on: a valid record that follows a failed one is stored.
C22_RecordFailureIsLocal ==
    [][ IsStorePass =>
          /\ store'.branch \in FailureBranches
             => (/\ stats'.records_failed = stats.records_failed + 1
                 /\ stats'.records_imported = stats.records_imported
                 /\ visits' = visits
                 /\ claims_table' = claims_table)
          /\ (store.branch \in FailureBranches /\ ValidRecord(PassRecord))
             => store'.branch \in { "inserted", "duplicate" } ]_vars

\* the patient ids of the registry
PatientIds == { p.patient_id : p \in patients }

\* C23: every stored visit and every stored claim carries the patient_id of an
\* identity of the registry, and a pass whose patient was not resolved stores
\* no visit and no claim.
C23_StoredRecordsReferencePatients ==
    /\ [](/\ \A i \in DOMAIN visits : visits[i].patient_id \in PatientIds
          /\ \A i \in DOMAIN claims_table : claims_table[i].patient_id \in PatientIds)
    /\ [][ (IsStorePass /\ store'.branch = "unresolved")
           => (visits' = visits /\ claims_table' = claims_table) ]_vars

\* C23 witness: store_claims has just failed to resolve a patient while visits
\* and claims of resolved patients are stored.
C23_Witness ==
    /\ store.pc = "claims"
    /\ store.branch = "unresolved"
    /\ visits # << >>
    /\ claims_table # << >>

\* the counters of the resolver
ResolverCounters == { "patients_matched", "patients_created" }

\* C28: a visit skipped by the duplicate guard adds nothing to records_imported
\* and nothing to records_failed, and is counted: the pass adds one to a
\* counter of the statistics (other than the resolver's counters of the
\* patient it matched).
C28_SkippedDuplicateIsCounted ==
    [][ (IsStorePass /\ store'.branch = "duplicate")
        => (/\ stats'.records_imported = stats.records_imported
            /\ stats'.records_failed = stats.records_failed
            /\ \E counter \in DOMAIN stats \ ResolverCounters :
                   stats'[counter] = stats[counter] + 1) ]_vars

\* C30: records_imported + records_failed <= records_read at every point of
\* the run; no counter ever decreases; records_imported grows by one, and only
\* in a pass that has inserted the row of its visit or claim.
C30_CountersBoundedByRead ==
    /\ [](stats.records_imported + stats.records_failed <= stats.records_read)
    /\ [][ /\ \A counter \in DOMAIN stats : stats'[counter] >= stats[counter]
           /\ stats'.records_imported # stats.records_imported
              => (/\ stats'.records_imported = stats.records_imported + 1
                  /\ IsStorePass
                  /\ store'.branch = "inserted"
                  /\ IF store.pc = "loop"
                     THEN visits' = Append(visits, VisitRow(visits'[Len(visits')].patient_id,
                                                            PassRecord, import_batch))
                     ELSE /\ claims_table' # << >>
                          /\ claims_table'[Len(claims_table')].claim_number
                                 = PassRecord.claim_number) ]_vars

\* C30 witness: the directory is done with records imported, failed and
\* skipped as duplicates, so that the sum is below records_read.
C30_Witness ==
    /\ DirectoryDone
    /\ stats.records_imported > 0
    /\ stats.records_failed > 0
    /\ stats.records_imported + stats.records_failed < stats.records_read

(***************************************************************************)
(* normalize_name on raw names (SpecNormalize).  The raw names are written *)
(* from a list of tokens: in either order, in lower case, capitals or with *)
(* a capital first letter, with one of the separators between the tokens,  *)
(* with or without a final '.', and with or without blanks around.  Two    *)
(* raw names written from the same tokens differ only in token order,      *)
(* letter case, whitespace and the characters '.', ',' and '/'.            *)
(***************************************************************************)

\* str.upper() on one character
UpperChar(c) ==
    IF Ord(c) >= Ord("a") /\ Ord(c) <= Ord("z")
    THEN Alphabet[Ord(c) - (Ord("a") - Ord("A"))] ELSE c

\* str.upper()
Upper(s) == [i \in 1..Len(s) |-> UpperChar(s[i])]

\* a token in one of the letter cases
Cased(token, case) ==
    CASE case = "lower" -> token
      [] case = "upper" -> Upper(token)
      [] case = "title" -> [i \in 1..Len(token) |->
                               IF i = 1 THEN UpperChar(token[i]) ELSE token[i]]

\* the letter cases of a raw name
Cases == { "lower", "upper", "title" }

\* what stands between two tokens of a raw name
Separators == { << " " >>, << " ", " ", " " >>, << ",", " " >>, << "," >>, << "/" >> }

\* what stands before and after a raw name
Margins == { << >>, << " ", " " >> }

\* what ends the last token of a raw name
Endings == { << >>, << "." >> }

\* the token lists the raw names are written from: smith john, nan, and none
TokenLists ==
    { << << "s", "m", "i", "t", "h" >>, << "j", "o", "h", "n" >> >>,
      << NaNString >>,
      << >> }

\* the token list in reverse order
Reversed(tokens) == [i \in 1..Len(tokens) |-> tokens[Len(tokens) + 1 - i]]

\* the raw name of a token list in the order given
Written(tokens, case, separator, margin, ending) ==
    margin \o Join([i \in 1..Len(tokens) |-> Cased(tokens[i], case)], separator)
           \o (IF tokens = << >> THEN << >> ELSE ending) \o margin

\* the raw names written from a token list
RawNames(tokens) ==
    { Written(order, case, separator, margin, ending) :
          order \in { tokens, Reversed(tokens) }, case \in Cases,
          separator \in Separators, margin \in Margins, ending \in Endings }

\* normalize_name applied to two raw names written from the same tokens, and
\* to the key of the first
NormalizeNames(tokens, a, b) ==
    /\ normalized = None
    /\ normalized' = Some([tokens |-> tokens, a |-> a, b |-> b,
                           key_a |-> normalize_name(a),
                           key_b |-> normalize_name(b),
                           key_of_key_a |-> normalize_name(normalize_name(a))])
    /\ UNCHANGED << patients, stats, import_batch, call, ret, concVars, visitVars,
                    analysisVars, apiVars, pipeVars >>

\* no name normalized yet
InitNormalize == Init

NextNormalize ==
    \E tokens \in TokenLists : \E a, b \in RawNames(tokens) : NormalizeNames(tokens, a, b)

SpecNormalize == InitNormalize /\ [][NextNormalize]_vars

\* C24: two raw names that differ only in token order, letter case,
\* whitespace and the characters '.', ',', '/' have the same key; the key of
\* an empty or 'nan' name is the empty string; and the key of a key is the key.
C24_NormalizeKeyProperties ==
    normalized # None =>
        LET n == normalized[1]
        IN  /\ n.key_a = n.key_b
            /\ (n.a = << >> \/ n.a = NaNString) => n.key_a = << >>
            /\ n.key_of_key_a = n.key_a

(***************************************************************************)
(* Candidates with equal scores (SpecTie): find_or_create_patient on names *)
(* that differ in letter case only.  The candidate SELECT compares         *)
(* last_name and first_name as written, the score compares the names in    *)
(* lower case, so a name can have two candidates with the score 100.       *)
(***************************************************************************)

\* "Doe, JANE": last name as "Doe, Jane", first name as "DOE, JANE"
NameDoeJANE == << "D", "o", "e", ",", " ", "J", "A", "N", "E" >>

\* the raw patient names offered to the resolver
TieNames == { NameDoeJaneId, NameDoeJaneUpper, NameDoeJANE }

\* an empty warehouse and a fresh pipeline instance
InitTie == Init

NextTie ==
    \/ \E patient_id \in PidArgs, patient_name \in TieNames :
           Resolve(patient_id, patient_name)
    \/ NewPipeline

SpecTie == InitTie /\ [][NextTie]_vars

\* the candidates of a name whose score is the best one and at least the threshold
TopCandidates(tbl, e) ==
    LET cands == SelectCandidates(tbl, e.last_name, e.first_name)
    IN  { d \in cands :
            /\ Score(e.full_name, d.patient_name) >= Threshold
            /\ \A c \in cands :
                   Score(e.full_name, c.patient_name) <= Score(e.full_name, d.patient_name) }

\* identity p was created by an earlier pipeline instance than identity q
CreatedBefore(p, q) ==
    /\ p.created_by = CreatedBy(FirstBatch)
    /\ q.created_by # CreatedBy(FirstBatch)

\* C25: when several candidates reach the same best score >= threshold, the
\* call returns the earliest-created of them: never a candidate created after
\* another candidate with that score, whatever the patient_ids.
C25_TieReturnsEarliestCreated ==
    [][ (IsResolveStep
            /\ ~(Truthy(StepPid) /\ SelectById(patients, StepPid[1]) # {}))
        => \A p \in TopCandidates(patients, StepName) :
               (\E q \in TopCandidates(patients, StepName) : CreatedBefore(q, p))
               => ret' # Some(p.patient_id) ]_vars

(***************************************************************************)
(* Further claims about the resolver, checked under Spec and SpecConc      *)
(***************************************************************************)

\* the step is a find_or_create_patient call of Spec, whatever it changed
IsCallStep == call' # << >>

\* the explicit id of the call is not the id of a registered identity
UnregisteredId == StepPid # None /\ SelectById(patients, StepPid[1]) = {}

\* C26: a call with an explicit id that is not registered, whose name has a
\* candidate with similarity >= threshold, returns the id of such a candidate
\* and creates nothing; an identity with the explicit id appears only when no
\* candidate reaches the threshold.
C26_UnregisteredIdMatchesByName ==
    [][ (IsCallStep /\ UnregisteredId)
        => /\ TopCandidates(patients, StepName) # {}
              => (/\ ret' \in { Some(p.patient_id) : p \in TopCandidates(patients, StepName) }
                  /\ patients' = patients)
           /\ (\E p \in patients' : p.patient_id = StepPid[1])
              => TopCandidates(patients, StepName) = {} ]_vars

\* C26 witness: a call with an explicit id that no identity carries was matched
\* by name to an identity with another id.
C26_Witness ==
    /\ call # << >>
    /\ LET pid == EffectivePatientId(call[1].patient_id, call[1].patient_name)
       IN  /\ Truthy(pid)
           /\ ret # None
           /\ ret # pid
           /\ \A p \in patients : p.patient_id # pid[1]
           /\ \E p \in patients : p.patient_id = ret[1]
    /\ stats.patients_matched > 0

NoExplicitId(w) == conn[w].explicit = None

\* C29: two concurrent resolutions of two different names that are not
\* registered, both without explicit id and both creating an identity, return
\* different ids, and both identities are in the registry afterwards.
C29_ConcurrentCreatesDistinctIds ==
    \A v, w \in Workers :
        (/\ v # w
         /\ conn[v].pc = "done" /\ conn[w].pc = "done"
         /\ NoExplicitId(v) /\ NoExplicitId(w)
         /\ conn[v].created = 1 /\ conn[w].created = 1
         /\ conn[v].found # None /\ conn[w].found # None
         /\ conn[v].e.full_name # conn[w].e.full_name)
        => (/\ conn[v].found # conn[w].found
            /\ \E p \in patients : p.patient_name = conn[v].e.full_name
            /\ \E p \in patients : p.patient_name = conn[w].e.full_name)

====
